---- MODULE Spec2Model ----
(***************************************************************************)
(* DiagCodeAI: the client-side orchestration of the DiagnosisTool          *)
(* component (src/src/components/diagnosis-tool.tsx): the joint retry of   *)
(* concept extraction and diagnosis suggestion, the ingestion of uploaded  *)
(* documents, and the session state they write, together with the local   *)
(* history store (src/src/lib/db.ts, src/src/components/history-panel.tsx).*)
(*                                                                         *)
(* JavaScript strings are TLA+ strings; the messages of remote errors,     *)
(* which the code searches for substrings, are sequences of one-character  *)
(* strings.  null is the distinguished string `null'.  Times are in ms.    *)
(***************************************************************************)
EXTENDS Integers, Sequences, FiniteSets, TLC

---------------------------------------------------------------------------
(* Bounds of the model.                                                    *)

\* submissions of the form made during one session
MaxSubmissions == 2
\* files selected in the file input during one session
MaxUploads == 1
\* submissions of the form made during the session of one case
MaxSessionSubmissions == 1
\* files selected in the file input during a session of ingestions
MaxIngestionUploads == 2

---------------------------------------------------------------------------
(* Program constants.                                                      *)

FILE_PROCESSING_RETRY_DELAYS_MS == <<2000, 3000, 15000>>
MAX_FILE_PROCESSING_ATTEMPTS == Len(FILE_PROCESSING_RETRY_DELAYS_MS) + 1

AI_SUGGESTION_RETRY_DELAYS_MS == <<2000, 3000, 15000>>
MAX_AI_SUGGESTION_ATTEMPTS == Len(AI_SUGGESTION_RETRY_DELAYS_MS) + 1

\* diagnosisFormSchema: clinicalText: z.string().min(20)
MinClinicalTextLength == 20
\* diagnosisFormSchema: codingSystem: z.enum([...])
CodingSystems == {"CIE-10", "CIE-11", "CIE-O"}

null == "<null>"

---------------------------------------------------------------------------
(* Strings the code searches: sequences of one-character strings.          *)

UpperCaseLetters ==
  <<"A","B","C","D","E","F","G","H","I","J","K","L","M",
    "N","O","P","Q","R","S","T","U","V","W","X","Y","Z">>
LowerCaseLetters ==
  <<"a","b","c","d","e","f","g","h","i","j","k","l","m",
    "n","o","p","q","r","s","t","u","v","w","x","y","z">>

\* String.prototype.toLowerCase on one character
LowerChar(c) ==
  IF \E i \in DOMAIN UpperCaseLetters : UpperCaseLetters[i] = c
  THEN LowerCaseLetters[CHOOSE i \in DOMAIN UpperCaseLetters : UpperCaseLetters[i] = c]
  ELSE c

\* String.prototype.toLowerCase
ToLowerCase(s) == [i \in DOMAIN s |-> LowerChar(s[i])]

\* String.prototype.includes
Includes(s, needle) ==
  \E i \in 1..(Len(s) - Len(needle) + 1) :
    SubSeq(s, i, i + Len(needle) - 1) = needle

\* the characters of a message joined into one string
RECURSIVE Join(_)
Join(cs) == IF cs = <<>> THEN "" ELSE Head(cs) \o Join(Tail(cs))

Needle503 == <<"5","0","3">>
NeedleOverloaded == <<"o","v","e","r","l","o","a","d","e","d">>
NeedleServiceUnavailable ==
  <<"s","e","r","v","i","c","e"," ","u","n","a","v","a","i","l","a","b","l","e">>
NeedleRateLimit == <<"r","a","t","e"," ","l","i","m","i","t">>
NeedleGoogleGenerativeAI ==
  <<"[","G","o","o","g","l","e","G","e","n","e","r","a","t","i","v","e","A","I",
    " ","E","r","r","o","r","]">>
NeedleErrorFetchingFrom ==
  <<"e","r","r","o","r"," ","f","e","t","c","h","i","n","g"," ","f","r","o","m">>

(* A rejection reason: isError is `reason instanceof Error'.               *)
NoReason == [isError |-> FALSE, message |-> <<>>]

\* Error("Rate Limit exceeded"): a capacity signal of the AI service
ErrRateLimit ==
  [isError |-> TRUE,
   message |-> <<"R","a","t","e"," ","L","i","m","i","t"," ",
                 "e","x","c","e","e","d","e","d">>]
\* Error("[GoogleGenerativeAI Error] 400"): a communication failure
ErrCommunication ==
  [isError |-> TRUE,
   message |-> NeedleGoogleGenerativeAI \o <<" ","4","0","0">>]
\* Error("Bad output"): a malformed response
ErrMalformed ==
  [isError |-> TRUE,
   message |-> <<"B","a","d"," ","o","u","t","p","u","t">>]

\* the errors the two suggestion operations may reject with
SuggestionErrors == {ErrRateLimit, ErrMalformed}
\* the errors the document operations may reject with
IngestionErrors == {ErrRateLimit, ErrCommunication}

isRetryableError(error) ==
  IF error.isError /\ error.message # <<>>
  THEN LET lowerCaseMessage == ToLowerCase(error.message)
       IN  \/ Includes(lowerCaseMessage, Needle503)
           \/ Includes(lowerCaseMessage, NeedleOverloaded)
           \/ Includes(lowerCaseMessage, NeedleServiceUnavailable)
           \/ Includes(lowerCaseMessage, NeedleRateLimit)
  ELSE FALSE

\* the rejection reasons of the model
Reasons == {NoReason} \cup SuggestionErrors \cup IngestionErrors

\* isRetryableError on the reasons of the model, evaluated once
Retryable == [reason \in Reasons |-> isRetryableError(reason)]

---------------------------------------------------------------------------
(* Data.                                                                   *)

\* what the user may type in the notes field (37 characters)
TypedTexts == {"Paciente con fiebre y tos persistente"}

\* ExtractClinicalConceptsOutput.clinicalConcepts the service may return
ConceptValues == {<<"fiebre", "tos">>}

\* confidence is held in hundredths
DiagJ189 == [code |-> "J18.9", description |-> "Neumonia", confidence |-> 82]
DiagR50 == [code |-> "R50.9", description |-> "Fiebre", confidence |-> 40]
\* SuggestDiagnosesOutput.diagnoses the service may return
DiagnosisValues == {<<DiagJ189, DiagR50>>}

(* A PromiseSettledResult, `undefined' before the first assignment and     *)
(* `pending' while the call is in flight.                                  *)
Undefined == [status |-> "undefined", value |-> <<>>, reason |-> NoReason]
Pending == [status |-> "pending", value |-> <<>>, reason |-> NoReason]
Fulfilled(v) == [status |-> "fulfilled", value |-> v, reason |-> NoReason]
Rejected(e) == [status |-> "rejected", value |-> <<>>, reason |-> e]

ConceptOutcomes ==
  {Fulfilled(v) : v \in ConceptValues} \cup {Rejected(e) : e \in SuggestionErrors}
DiagnosisOutcomes ==
  {Fulfilled(v) : v \in DiagnosisValues} \cup {Rejected(e) : e \in SuggestionErrors}

\* how one settled result counts for the retry decision
Class(r) ==
  IF r.status = "fulfilled" THEN "ok"
  ELSE IF Retryable[r.reason] THEN "retry" ELSE "perm"

\* an id minted without the index of the diagnosis in the returned list
MintIdWithoutIndex(code, nonce, index) ==
  code \o "-" \o ToString(nonce) \o "-" \o ToString(nonce)

\* `${diag.code}-${Date.now()}-${index}-${Math.random()...}': the clock and
\* the random part are one nonce, ToString is Number.prototype.toString
MintId(code, nonce, index) ==
  code \o "-" \o ToString(nonce) \o "-" \o ToString(index) \o "-" \o ToString(nonce)

\* WithUIFields of one diagnosis: the fields the interface adds
Curated(diagnosis, id, isPrincipal, isSelected) ==
  [code |-> diagnosis.code,
   description |-> diagnosis.description,
   confidence |-> diagnosis.confidence,
   id |-> id,
   isPrincipal |-> isPrincipal,
   isSelected |-> isSelected]

\* a record db.history holds from an earlier session (IndexedDB persists)
StoredEntry ==
  [id |-> 1,
   timestamp |-> 0,
   clinicalText |-> "Mujer de 40 anos con cefalea intensa",
   codingSystem |-> "CIE-10",
   extractedConcepts |-> <<"cefalea">>,
   suggestedDiagnoses |-> <<Curated(DiagR50, "R50.9-0-0-0", TRUE, TRUE)>>,
   fileName |-> null,
   clinicalSummary |-> null]

Toast(variant, title, description) ==
  [variant |-> variant, title |-> title, description |-> description]

\* the record of `records' that db.history.orderBy("timestamp").reverse()
\* yields first: the greatest timestamp, and among equal ones the greatest key
Latest(records) ==
  CHOOSE k \in DOMAIN records :
    \A m \in DOMAIN records :
      \/ records[m].timestamp < records[k].timestamp
      \/ records[m].timestamp = records[k].timestamp /\ records[m].id <= records[k].id

\* a sequence without its k-th element
Without(s, k) == SubSeq(s, 1, k - 1) \o SubSeq(s, k + 1, Len(s))

\* db.history.orderBy("timestamp").reverse().toArray()
RECURSIVE LiveQuery(_)
LiveQuery(records) ==
  IF records = <<>> THEN <<>>
  ELSE <<records[Latest(records)]>> \o LiveQuery(Without(records, Latest(records)))


---------------------------------------------------------------------------
(* JSON.  A value of JSON.parse is a record of one shape: its type tag and,  *)
(* by the tag, its number, string, boolean, elements or members (a sequence *)
(* of <<key, value>>).  A member an object lacks reads as undefined.        *)

JValue(t, n, str, b, a, o) == [t |-> t, n |-> n, s |-> str, b |-> b, a |-> a, o |-> o]
JUndefined == JValue("undefined", 0, "", FALSE, <<>>, <<>>)
JNull == JValue("null", 0, "", FALSE, <<>>, <<>>)
JNum(n) == JValue("number", n, "", FALSE, <<>>, <<>>)
JStr(str) == JValue("string", 0, str, FALSE, <<>>, <<>>)
JBool(b) == JValue("boolean", 0, "", b, <<>>, <<>>)
JArr(a) == JValue("array", 0, "", FALSE, a, <<>>)
JObj(o) == JValue("object", 0, "", FALSE, <<>>, o)

\* the typeof operator
TypeOf(v) == IF v.t \in {"array", "null", "object"} THEN "object" ELSE v.t

\* Array.isArray
IsArray(v) == v.t = "array"

\* v.key: undefined when v has no such member
Member(v, key) ==
  IF \E k \in DOMAIN v.o : v.o[k][1] = key
  THEN v.o[CHOOSE k \in DOMAIN v.o : v.o[k][1] = key][2]
  ELSE JUndefined

\* reading a property of null or undefined throws a TypeError
HasNoProperties(v) == v.t \in {"null", "undefined"}

(* What the store and the session hold where the code expects a string is  *)
(* a TLA+ string; a value of another type in such a place is one of these  *)
(* distinguished strings, as null is.                                      *)
undefined == "<undefined>"
NumberAsString(n) == "<number " \o ToString(n) \o ">"
\* the numbers a payload may carry where a string is expected
OddNumbers == 0..9

\* the value a string place holds for a parsed value
Plain(v) ==
  CASE v.t = "string" -> v.s
    [] v.t = "number" -> NumberAsString(v.n)
    [] v.t = "null" -> null
    [] OTHER -> undefined

\* JSON.stringify of what a string place holds
Json(x) ==
  IF x = null THEN JNull
  ELSE IF x = undefined THEN JUndefined
  ELSE IF \E n \in OddNumbers : x = NumberAsString(n)
       THEN JNum(CHOOSE n \in OddNumbers : x = NumberAsString(n))
       ELSE JStr(x)

\* JSON.stringify leaves out the members whose value is undefined
Members(o) == SelectSeq(o, LAMBDA member : member[2] # JUndefined)

\* JSON.stringify of one diagnosis of a record
DiagnosisJson(d) ==
  JObj(<<<<"code", JStr(d.code)>>,
         <<"description", JStr(d.description)>>,
         <<"confidence", JNum(d.confidence)>>,
         <<"id", JStr(d.id)>>,
         <<"isPrincipal", JBool(d.isPrincipal)>>,
         <<"isSelected", JBool(d.isSelected)>>>>)

\* a serialisation that leaves the file name out
EntryJsonWithoutFileName(entry) ==
  JObj(Members(
    <<<<"timestamp", JNum(entry.timestamp)>>,
      <<"clinicalText", JStr(entry.clinicalText)>>,
      <<"codingSystem", JStr(entry.codingSystem)>>,
      <<"extractedConcepts",
        JArr([k \in DOMAIN entry.extractedConcepts |-> Json(entry.extractedConcepts[k])])>>,
      <<"suggestedDiagnoses",
        JArr([k \in DOMAIN entry.suggestedDiagnoses |->
                DiagnosisJson(entry.suggestedDiagnoses[k])])>>,
      <<"clinicalSummary", Json(entry.clinicalSummary)>>,
      <<"id", JNum(entry.id)>>>>))

\* JSON.stringify of one record of the store
EntryJson(entry) ==
  JObj(Members(
    <<<<"timestamp", JNum(entry.timestamp)>>,
      <<"clinicalText", JStr(entry.clinicalText)>>,
      <<"codingSystem", JStr(entry.codingSystem)>>,
      <<"extractedConcepts",
        JArr([k \in DOMAIN entry.extractedConcepts |-> Json(entry.extractedConcepts[k])])>>,
      <<"suggestedDiagnoses",
        JArr([k \in DOMAIN entry.suggestedDiagnoses |->
                DiagnosisJson(entry.suggestedDiagnoses[k])])>>,
      <<"fileName", Json(entry.fileName)>>,
      <<"clinicalSummary", Json(entry.clinicalSummary)>>,
      <<"id", JNum(entry.id)>>>>))

\* a text file: whether JSON.parse accepts it, and the value it yields
Text(value) == [parses |-> TRUE, value |-> value]
NotJson == [parses |-> FALSE, value |-> JUndefined]

\* JSON.stringify(allEntries, null, 2)
Stringify(allEntries) ==
  Text(JArr([k \in DOMAIN allEntries |-> EntryJson(allEntries[k])]))

---------------------------------------------------------------------------
(* State.                                                                  *)

VARIABLES
  clinicalText,        \* form value clinicalText
  codingSystem,        \* form value codingSystem
  isLoading,
  extractedConcepts,
  suggestedDiagnoses,
  error,
  submitted,
  isProcessingFile,
  fileProcessingError,
  uploadedFileName,
  uploadMethod,
  clinicalSummary,
  isSummarizing,
  history,             \* db.history: the records, in insertion order
  nextId,              \* db.history: the next auto-incremented key
  historyEntries,      \* HistoryPanel: what useLiveQuery last delivered
  imports,             \* the calls of handleImportFileSelect
  exported,            \* the file handleExportHistory last downloaded (NotJson: none)
  historyToasts,       \* the toasts raised by the latest handler of HistoryPanel
  subs,                \* the calls of onSubmit started from the form, each
                       \* with its retries (one closure)
  jobs,                \* the calls of handleFileChange, each with its retries
  toasts               \* the destructive toasts raised by the latest handler

formVars == <<clinicalText, codingSystem>>
resultVars == <<extractedConcepts, suggestedDiagnoses, error, submitted>>
fileVars == <<isProcessingFile, fileProcessingError, uploadedFileName, uploadMethod>>
summaryVars == <<clinicalSummary, isSummarizing>>
storeVars == <<history, nextId, historyEntries, imports, exported, historyToasts>>

vars == <<clinicalText, codingSystem, isLoading, extractedConcepts,
          suggestedDiagnoses, error, submitted, isProcessingFile,
          fileProcessingError, uploadedFileName, uploadMethod, clinicalSummary,
          isSummarizing, history, nextId, historyEntries, imports, exported,
          historyToasts, subs, jobs, toasts>>

Init ==
  /\ clinicalText = ""
  /\ codingSystem = "CIE-10"
  /\ isLoading = FALSE
  /\ extractedConcepts = <<>>
  /\ suggestedDiagnoses = <<>>
  /\ error = null
  /\ submitted = FALSE
  /\ isProcessingFile = FALSE
  /\ fileProcessingError = null
  /\ uploadedFileName = null
  /\ uploadMethod = "normal"
  /\ clinicalSummary = null
  /\ isSummarizing = FALSE
  /\ history = <<StoredEntry>>
  /\ nextId = 2
  /\ historyEntries = LiveQuery(history)
  /\ imports = <<>>
  /\ exported = NotJson
  /\ historyToasts = {}
  /\ subs = <<>>
  /\ jobs = <<>>
  /\ toasts = {}

---------------------------------------------------------------------------
(* The calls in progress.                                                  *)

\* JavaScript's !x on a string, null or undefined
Falsy(x) == x = null \/ x = undefined \/ x = ""

(* One call of onSubmit from the form with the retries it schedules: the    *)
(* closure's data and whether its `error' is set (the closure only tests   *)
(* !error), the attempt in progress, the two calls, the time left on the   *)
(* retry timer, and a record of what has happened                          *)
(* (failed: the operations rejected on an attempt that was retried;        *)
(* delays: the delays armed; invoked: the invocations made of each         *)
(* operation; final: the classes of the results the call finalized with).  *)
NewSubmission(data, closureError) ==
  [data |-> data,
   error |-> ~Falsy(closureError),
   currentAttempt |-> 0,
   phase |-> "new",
   callConcepts |-> Undefined,
   callDiagnoses |-> Undefined,
   conceptsResult |-> Undefined,
   diagnosesResultFromAI |-> Undefined,
   remaining |-> 0,
   failed |-> {},
   delays |-> <<>>,
   invokedConcepts |-> 0,
   invokedDiagnoses |-> 0,
   final |-> <<>>]

\* a call of onSubmit that has finalized reads its closure no more: what it
\* did is kept for the state it finalizes in, and nothing from the next
\* step on
Retired ==
  [NewSubmission([clinicalText |-> "", codingSystem |-> ""], null)
     EXCEPT !.phase = "retired"]

Closed(calls) ==
  [k \in DOMAIN calls |-> IF calls[k].phase = "done" THEN Retired ELSE calls[k]]

\* a File: its name, its MIME type as <<type, subtype>>, and, for a text
\* file, what FileReader.readAsText yields
FilePdf == [name |-> "informe.pdf", type |-> <<"application", "pdf">>, content |-> ""]
FileTxt == [name |-> "nota.txt", type |-> <<"text", "plain">>,
            content |-> "Paciente con dolor abdominal agudo"]
FileDocx == [name |-> "informe.docx", type |-> <<"application", "msword">>, content |-> ""]
\* a text file without content
FileEmptyTxt == [name |-> "vacio.txt", type |-> <<"text", "plain">>, content |-> ""]
Files == {FilePdf, FileTxt, FileDocx}

(* One call of handleFileChange with the retries it schedules.             *)
NewJob(file, method) ==
  [file |-> file,
   uploadMethod |-> method,
   currentAttempt |-> 0,
   phase |-> "new",
   remaining |-> 0,
   err |-> NoReason,
   delays |-> <<>>,
   invoked |-> 0,
   final |-> "none"]

\* a call of handleFileChange that has ended, from the next step on
RetiredJob == [NewJob(FilePdf, "normal") EXCEPT !.phase = "retired"]

ClosedJobs(calls) ==
  [k \in DOMAIN calls |-> IF calls[k].phase = "done" THEN RetiredJob ELSE calls[k]]

---------------------------------------------------------------------------
(* The suggestion orchestrator: onSubmit.                                  *)

\* random and clock parts of a minted id: `${Date.now()}...${Math.random()}'
MaxNonce == 0
Nonces == 0..MaxNonce

\* diagnosesWithUIFields: the map over the returned diagnoses
WithUIFields(diagnoses, nonce) ==
  [index \in DOMAIN diagnoses |->
     Curated(diagnoses[index], MintId(diagnoses[index].code, nonce, index - 1),
             FALSE, FALSE)]

\* a schema without the minimum length of the notes
FormIsValidForAnyText == codingSystem \in CodingSystems

\* zodResolver(diagnosisFormSchema) on the form values
FormIsValid ==
  /\ Len(clinicalText) >= MinClinicalTextLength
  /\ codingSystem \in CodingSystems

\* a submit button that a running submission does not disable
SubmitDisabledByFileOnly == isProcessingFile \/ isSummarizing

\* the submit button's disabled attribute
SubmitDisabled == isLoading \/ isProcessingFile \/ isSummarizing

\* an onSubmit that clears the prior results on every attempt
ClearsOnEveryAttempt(currentAttempt) == TRUE

\* if (currentAttempt === 1) { setSubmitted(true); setExtractedConcepts([]); ... }
ClearsPriorResults(currentAttempt) == currentAttempt = 1

\* a retry that invokes again only the operations that were rejected
InvokedFailedOperations(sub) ==
  IF sub.currentAttempt = 0
  THEN {"concepts", "diagnoses"}
  ELSE {op \in {"concepts"} : sub.conceptsResult.status = "rejected"}
       \cup {op \in {"diagnoses"} : sub.diagnosesResultFromAI.status = "rejected"}

\* the operations one call of onSubmit invokes: Promise.allSettled([...])
InvokedOperations(sub) == {"concepts", "diagnoses"}

\* a retry decision that counts every rejection, retryable or not
NeedsRetryOnAnyRejection(cr, dr) ==
  cr.status = "rejected" \/ dr.status = "rejected"

\* needsRetry after both results have settled
NeedsRetry(cr, dr) ==
  \/ cr.status = "rejected" /\ Retryable[cr.reason]
  \/ dr.status = "rejected" /\ Retryable[dr.reason]

\* a scheduler whose ceiling is one attempt too high
SchedulesRetryPastCeiling(needsRetry, currentAttempt) ==
  needsRetry /\ currentAttempt <= MAX_AI_SUGGESTION_ATTEMPTS

\* if (needsRetry && currentAttempt < MAX_AI_SUGGESTION_ATTEMPTS)
SchedulesRetry(needsRetry, currentAttempt) ==
  needsRetry /\ currentAttempt < MAX_AI_SUGGESTION_ATTEMPTS

\* a delay read one place too far: DELAYS[currentAttempt]
NextDelayOffByOne(DELAYS, currentAttempt) ==
  IF currentAttempt + 1 \in DOMAIN DELAYS THEN DELAYS[currentAttempt + 1] ELSE 0

\* DELAYS[currentAttempt - 1] of a JavaScript array; setTimeout takes an
\* undefined delay as 0
NextDelay(DELAYS, currentAttempt) ==
  IF currentAttempt \in DOMAIN DELAYS THEN DELAYS[currentAttempt] ELSE 0

\* a finally block that sees a retry pending after every attempt
AlwaysStillRetrying(cr, dr, currentAttempt) == TRUE

\* a finally block that never sees a retry pending
NeverStillRetrying(cr, dr, currentAttempt) == FALSE

\* isAnyOperationStillRetrying of the finally block
IsAnyOperationStillRetrying(cr, dr, currentAttempt) ==
  /\ \/ cr.status = "rejected" /\ Retryable[cr.reason]
     \/ dr.status = "rejected" /\ Retryable[dr.reason]
  /\ currentAttempt < MAX_AI_SUGGESTION_ATTEMPTS

ConceptErrorMessage(reason) ==
  IF reason.isError /\ reason.message # <<>>
  THEN IF Retryable[reason]
       THEN "El servicio de IA para extraer conceptos esta sobrecargado/limitado (todos los 4 intentos fallaron). Intente mas tarde."
       ELSE IF \/ Includes(reason.message, NeedleGoogleGenerativeAI)
               \/ Includes(ToLowerCase(reason.message), NeedleErrorFetchingFrom)
            THEN "Problema de comunicacion al extraer conceptos con IA. Intente mas tarde."
            ELSE "Error al extraer conceptos: " \o Join(reason.message)
  ELSE "Ocurrio un error desconocido al extraer conceptos."

DiagnoseErrorMessage(reason) ==
  IF reason.isError /\ reason.message # <<>>
  THEN IF Retryable[reason]
       THEN "El servicio de IA para sugerir diagnosticos esta sobrecargado/limitado (todos los 4 intentos fallaron). Intente mas tarde."
       ELSE IF \/ Includes(reason.message, NeedleGoogleGenerativeAI)
               \/ Includes(ToLowerCase(reason.message), NeedleErrorFetchingFrom)
            THEN "Problema de comunicacion al sugerir diagnosticos con IA. Intente mas tarde."
            ELSE "Error al sugerir diagnosticos: " \o Join(reason.message)
  ELSE "Ocurrio un error desconocido al sugerir diagnosticos."

ConceptErrorToast(reason) ==
  Toast("destructive", "Error en la Extraccion de Conceptos", ConceptErrorMessage(reason))
DiagnoseErrorToast(reason) ==
  Toast("destructive", "Error en la Sugerencia de Diagnosticos", DiagnoseErrorMessage(reason))

BothFailedError ==
  "Ambas operaciones de IA (conceptos y diagnosticos) fallaron. Por favor, revise la consola para mas detalles e intente de nuevo."
OneOrMoreFailedError ==
  "Una o mas operaciones de IA fallaron. Por favor, revise los mensajes de error individuales."

\* a finalization without the combined error of the double failure
ErrorWithoutCombinedCase(cr, dr, needsRetry, closureError) ==
  LET afterDiagnoses ==
        IF dr.status = "rejected" /\ ~closureError
        THEN "Error al sugerir diagnosticos: " \o DiagnoseErrorMessage(dr.reason)
        ELSE error
  IN  IF \/ cr.status = "rejected" /\ ~Retryable[cr.reason]
         \/ dr.status = "rejected" /\ ~Retryable[dr.reason]
      THEN IF ~closureError /\ (cr.status = "rejected" \/ dr.status = "rejected")
           THEN OneOrMoreFailedError
           ELSE afterDiagnoses
      ELSE afterDiagnoses

\* the error state after the setError calls of the finalization, in order;
\* closureError is what the closure of onSubmit reads as `error'
ErrorAfterFinalization(cr, dr, needsRetry, closureError) ==
  LET afterDiagnoses ==
        IF dr.status = "rejected" /\ ~closureError
        THEN "Error al sugerir diagnosticos: " \o DiagnoseErrorMessage(dr.reason)
        ELSE error
  IN  IF cr.status = "rejected" /\ dr.status = "rejected" /\ ~needsRetry
      THEN BothFailedError
      ELSE IF \/ cr.status = "rejected" /\ ~Retryable[cr.reason]
              \/ dr.status = "rejected" /\ ~Retryable[dr.reason]
           THEN IF ~closureError /\ (cr.status = "rejected" \/ dr.status = "rejected")
                THEN OneOrMoreFailedError
                ELSE afterDiagnoses
           ELSE afterDiagnoses

\* a finalization that falls back on the concepts an earlier attempt of the
\* call returned
ConceptsFromAnyAttempt(cr) ==
  IF cr.status = "fulfilled"
  THEN cr.value
  ELSE IF \E i \in DOMAIN subs :
            subs[i].phase = "inflight" /\ subs[i].conceptsResult.status = "fulfilled"
       THEN LET i == CHOOSE i \in DOMAIN subs :
                       /\ subs[i].phase = "inflight"
                       /\ subs[i].conceptsResult.status = "fulfilled"
            IN  subs[i].conceptsResult.value
       ELSE extractedConcepts

\* a finalization that never writes the concept list
ConceptsNeverCommitted(cr) == extractedConcepts

\* setExtractedConcepts(conceptsResult.value.clinicalConcepts || [])
ConceptsAfterFinalization(cr) ==
  IF cr.status = "fulfilled" THEN cr.value ELSE extractedConcepts

\* a finalization that never writes the diagnosis list
DiagnosesNeverCommitted(dr, nonce) == suggestedDiagnoses

\* setSuggestedDiagnoses(diagnosesWithUIFields)
DiagnosesAfterFinalization(dr, nonce) ==
  IF dr.status = "fulfilled" THEN WithUIFields(dr.value, nonce) ELSE suggestedDiagnoses

\* the inputs of the two calls
ConceptsInput(data) == [documentText |-> data.clinicalText]
DiagnosesInput(data) ==
  [clinicalText |-> data.clinicalText, codingSystem |-> data.codingSystem]

\* the await of Promise.allSettled([...]) in call number currentAttempt
Invoke(sub, currentAttempt) ==
  LET ops == InvokedOperations(sub)
  IN  [sub EXCEPT
         !.currentAttempt = currentAttempt,
         !.phase = "inflight",
         !.remaining = 0,
         !.callConcepts =
            IF "concepts" \in ops THEN Pending ELSE sub.conceptsResult,
         !.callDiagnoses =
            IF "diagnoses" \in ops THEN Pending ELSE sub.diagnosesResultFromAI,
         !.invokedConcepts = IF "concepts" \in ops THEN @ + 1 ELSE @,
         !.invokedDiagnoses = IF "diagnoses" \in ops THEN @ + 1 ELSE @]

\* onSubmit up to the await: the state it sets before the calls are made
BeginAttempt(currentAttempt) ==
  /\ isLoading' = TRUE
  /\ error' = null
  /\ IF ClearsPriorResults(currentAttempt)
     THEN /\ submitted' = TRUE
          /\ extractedConcepts' = <<>>
          /\ suggestedDiagnoses' = <<>>
     ELSE UNCHANGED <<submitted, extractedConcepts, suggestedDiagnoses>>
  /\ toasts' = {}

\* a first attempt that also discards the summary
SubmitClearingSummaryWithin(submissions) ==
  /\ ~SubmitDisabled
  /\ FormIsValid
  /\ Len(subs) < submissions
  /\ BeginAttempt(1)
  /\ subs' = Append(Closed(subs),
                    Invoke(NewSubmission([clinicalText |-> clinicalText,
                                          codingSystem |-> codingSystem],
                                         error), 1))
  /\ jobs' = ClosedJobs(jobs)
  /\ clinicalSummary' = null
  /\ UNCHANGED <<formVars, fileVars, isSummarizing, storeVars>>

\* the user submits the form: form.handleSubmit((data) => onSubmit(data, 1))
SubmitWithin(submissions) ==
  /\ ~SubmitDisabled
  /\ FormIsValid
  /\ Len(subs) < submissions
  /\ BeginAttempt(1)
  /\ subs' = Append(Closed(subs),
                    Invoke(NewSubmission([clinicalText |-> clinicalText,
                                          codingSystem |-> codingSystem],
                                         error), 1))
  /\ jobs' = ClosedJobs(jobs)
  /\ UNCHANGED <<formVars, fileVars, summaryVars, storeVars>>

Submit == SubmitWithin(MaxSubmissions)

\* onSubmit after the await, both results settled as cr and dr
AfterAllSettled(i, cr, dr) ==
  LET sub == subs[i]
      needsRetry == NeedsRetry(cr, dr)
      settled == [sub EXCEPT !.callConcepts = Undefined,
                             !.callDiagnoses = Undefined,
                             !.conceptsResult = cr,
                             !.diagnosesResultFromAI = dr]
      stillLoading ==
        IF IsAnyOperationStillRetrying(cr, dr, sub.currentAttempt)
        THEN isLoading ELSE FALSE
  IN  IF SchedulesRetry(needsRetry, sub.currentAttempt)
      THEN LET nextDelay == NextDelay(AI_SUGGESTION_RETRY_DELAYS_MS, sub.currentAttempt)
           IN  /\ subs' = [Closed(subs) EXCEPT ![i] =
                             [settled EXCEPT
                                !.phase = "waiting",
                                !.remaining = nextDelay,
                                !.delays = Append(@, nextDelay),
                                !.failed = @ \cup
                                   {op \in {"concepts"} : cr.status = "rejected"} \cup
                                   {op \in {"diagnoses"} : dr.status = "rejected"}]]
               /\ toasts' = {}
               /\ isLoading' = stillLoading
               /\ UNCHANGED resultVars
      ELSE \E nonce \in Nonces :
               /\ subs' = [Closed(subs) EXCEPT ![i] =
                             [settled EXCEPT
                                !.phase = "done",
                                !.data = Retired.data,
                                !.error = Retired.error,
                                !.final = <<Class(cr), Class(dr)>>]]
               /\ extractedConcepts' = ConceptsAfterFinalization(cr)
               /\ suggestedDiagnoses' = DiagnosesAfterFinalization(dr, nonce)
               /\ error' = ErrorAfterFinalization(cr, dr, needsRetry, sub.error)
               /\ toasts' =
                    (IF cr.status = "rejected" THEN {ConceptErrorToast(cr.reason)} ELSE {})
                    \cup
                    (IF dr.status = "rejected" THEN {DiagnoseErrorToast(dr.reason)} ELSE {})
               /\ isLoading' = stillLoading
               /\ UNCHANGED submitted

\* a continuation that also stores the case when both operations succeed
AllSettledThenSaved(i, cr, dr) ==
  /\ subs[i].phase = "inflight"
  /\ subs[i].callConcepts.status = "pending" => cr.status \in {"fulfilled", "rejected"}
  /\ subs[i].callConcepts.status # "pending" => cr = subs[i].callConcepts
  /\ subs[i].callDiagnoses.status = "pending" => dr.status \in {"fulfilled", "rejected"}
  /\ subs[i].callDiagnoses.status # "pending" => dr = subs[i].callDiagnoses
  /\ AfterAllSettled(i, cr, dr)
  /\ jobs' = ClosedJobs(jobs)
  /\ history' =
       IF cr.status = "fulfilled" /\ dr.status = "fulfilled"
       THEN Append(history,
              [id |-> nextId,
               timestamp |-> 1,
               clinicalText |-> clinicalText,
               codingSystem |-> codingSystem,
               extractedConcepts |-> extractedConcepts',
               suggestedDiagnoses |-> suggestedDiagnoses',
               fileName |-> uploadedFileName,
               clinicalSummary |-> clinicalSummary])
       ELSE history
  /\ UNCHANGED <<formVars, fileVars, summaryVars, nextId, historyEntries, imports,
                 exported, historyToasts>>

\* Promise.allSettled([...]) resolves with the two settled results and
\* onSubmit continues after the await
AllSettled(i, cr, dr) ==
  /\ subs[i].phase = "inflight"
  /\ subs[i].callConcepts.status = "pending" => cr.status \in {"fulfilled", "rejected"}
  /\ subs[i].callConcepts.status # "pending" => cr = subs[i].callConcepts
  /\ subs[i].callDiagnoses.status = "pending" => dr.status \in {"fulfilled", "rejected"}
  /\ subs[i].callDiagnoses.status # "pending" => dr = subs[i].callDiagnoses
  /\ AfterAllSettled(i, cr, dr)
  /\ jobs' = ClosedJobs(jobs)
  /\ UNCHANGED <<formVars, fileVars, summaryVars, storeVars>>

\* a retry that reads the form again for what it sends
RetryReadingForm(i) ==
  /\ subs[i].phase = "waiting"
  /\ subs[i].remaining = 0
  /\ BeginAttempt(subs[i].currentAttempt + 1)
  /\ subs' = [Closed(subs) EXCEPT ![i] =
               Invoke([subs[i] EXCEPT !.data = [clinicalText |-> clinicalText,
                                                codingSystem |-> codingSystem]],
                      subs[i].currentAttempt + 1)]
  /\ jobs' = ClosedJobs(jobs)
  /\ UNCHANGED <<formVars, fileVars, summaryVars, storeVars>>

\* the retry timer fires: setTimeout(() => onSubmit(data, currentAttempt + 1), nextDelay)
RetrySubmission(i) ==
  /\ subs[i].phase = "waiting"
  /\ subs[i].remaining = 0
  /\ BeginAttempt(subs[i].currentAttempt + 1)
  /\ subs' = [Closed(subs) EXCEPT ![i] = Invoke(subs[i], subs[i].currentAttempt + 1)]
  /\ jobs' = ClosedJobs(jobs)
  /\ UNCHANGED <<formVars, fileVars, summaryVars, storeVars>>

---------------------------------------------------------------------------
(* Document ingestion: handleFileChange and processFileForClinicalNotes.   *)

\* file.type === "text/plain"
IsPlainText(file) == file.type = <<"text", "plain">>
\* a test that takes every application/* type for a document
IsImageOrApplication(file) == file.type[1] \in {"image", "application"}

\* file.type.startsWith("image/") || file.type === "application/pdf"
IsImageOrPdf(file) == file.type[1] = "image" \/ file.type = <<"application", "pdf">>

\* the text the document operations may return
ExtractedTexts == {"Paciente con fiebre y tos persistente"}
IngestionOutcomes ==
  {Fulfilled(t) : t \in ExtractedTexts} \cup {Rejected(e) : e \in IngestionErrors}

\* the file input's (and its button's) disabled attribute
FileInputDisabled == isProcessingFile

\* a catch block that schedules a retry after every retryable failure
SchedulesFileRetryWithoutCeiling(err, currentAttempt) == Retryable[err]

\* if (isRetryableError(err) && currentAttempt < MAX_FILE_PROCESSING_ATTEMPTS)
SchedulesFileRetry(err, currentAttempt) ==
  Retryable[err] /\ currentAttempt < MAX_FILE_PROCESSING_ATTEMPTS

MethodName(method) == IF method = "extensive" THEN "extenso" ELSE "normal"

\* the messages the catch block chooses from
OverloadedMessage(method) ==
  "El servicio de IA para procesar archivos (" \o MethodName(method)
  \o ") esta sobrecargado/limitado (todos los 4 intentos fallaron). Por favor, intente de nuevo mas tarde."
CommunicationMessage(method) ==
  "Hubo un problema de comunicacion con el servicio de IA al procesar el archivo ("
  \o MethodName(method) \o "). Verifique su conexion o intente mas tarde."
UnprocessableMessage(method) ==
  "No se pudo procesar el documento (" \o MethodName(method)
  \o "). Intente con otro archivo o ingrese el texto manualmente."
DefaultFileMessage(method) ==
  "Ocurrio un error al procesar el documento con el metodo " \o MethodName(method)
  \o ". Por favor, intente de nuevo."

\* a userMessage that tells of the overload whenever the error has a message
FileUserMessageAlwaysOverloaded(err, method) ==
  IF err.message # <<>>
  THEN OverloadedMessage(method)
  ELSE DefaultFileMessage(method)

\* userMessage of the catch block
FileUserMessage(err, method) ==
  IF err.message # <<>>
  THEN IF Retryable[err]
       THEN OverloadedMessage(method)
       ELSE IF \/ Includes(err.message, NeedleGoogleGenerativeAI)
               \/ Includes(ToLowerCase(err.message), NeedleErrorFetchingFrom)
            THEN CommunicationMessage(method)
            ELSE UnprocessableMessage(method)
  ELSE DefaultFileMessage(method)

\* the text written to the notes field when the ingestion fails
FileFailureText(file, method, userMessage) ==
  "Error al procesar el archivo " \o file.name \o " con el metodo "
  \o MethodName(method) \o ". Detalles: " \o userMessage
  \o ". Por favor, ingrese el texto manualmente o intente con otro archivo."

\* a start of the processing that leaves the displayed error of a supported
\* file as it was
BeginProcessingKeepingError(job, currentAttempt) ==
  LET file == job.file
  IN  /\ IF IsPlainText(file) \/ IsImageOrPdf(file)
         THEN /\ isProcessingFile' = TRUE
              /\ UNCHANGED fileProcessingError
              /\ toasts' = {}
         ELSE /\ isProcessingFile' = FALSE
              /\ fileProcessingError' =
                   "Tipo de archivo no soportado. Por favor, suba imagenes, PDF o TXT."
              /\ toasts' = {Toast("destructive", "Archivo no soportado",
                                  "Solo se admiten archivos de imagen, PDF o TXT.")}

\* processFileForClinicalNotes(file, currentAttempt) up to reader.readAs...:
\* the job it leaves, and the state it sets
BeginProcessing(job, currentAttempt) ==
  LET file == job.file
      started == [job EXCEPT !.currentAttempt = currentAttempt, !.remaining = 0]
  IN  /\ IF IsPlainText(file) \/ IsImageOrPdf(file)
         THEN /\ isProcessingFile' = TRUE
              /\ fileProcessingError' = null
              /\ toasts' = {}
         ELSE /\ isProcessingFile' = FALSE
              /\ fileProcessingError' =
                   "Tipo de archivo no soportado. Por favor, suba imagenes, PDF o TXT."
              /\ toasts' = {Toast("destructive", "Archivo no soportado",
                                  "Solo se admiten archivos de imagen, PDF o TXT.")}

\* the job after processFileForClinicalNotes has returned
Processing(job, currentAttempt) ==
  [job EXCEPT !.currentAttempt = currentAttempt,
              !.remaining = 0,
              !.phase = IF IsPlainText(job.file) \/ IsImageOrPdf(job.file)
                        THEN "reading" ELSE "done",
              !.final = IF IsPlainText(job.file) \/ IsImageOrPdf(job.file)
                        THEN @ ELSE "unsupported"]

\* the user selects a file: handleFileChange
HandleFileChangeWithin(file, uploads) ==
  /\ ~FileInputDisabled
  /\ Len(jobs) < uploads
  /\ clinicalText' = ""
  /\ BeginProcessing(NewJob(file, uploadMethod), 1)
  /\ uploadedFileName' =
       IF IsPlainText(file) \/ IsImageOrPdf(file) THEN file.name ELSE null
  /\ jobs' = Append(ClosedJobs(jobs), Processing(NewJob(file, uploadMethod), 1))
  /\ subs' = Closed(subs)
  /\ UNCHANGED <<codingSystem, isLoading, resultVars, uploadMethod, summaryVars,
                 storeVars>>

HandleFileChange(file) == HandleFileChangeWithin(file, MaxUploads)

\* reader.onload: the text file's content is set, or the document's data URI
\* is sent to the document operation
ReaderLoads(j) ==
  /\ jobs[j].phase = "reading"
  /\ IF IsPlainText(jobs[j].file)
     THEN /\ clinicalText' = jobs[j].file.content
          /\ isProcessingFile' = FALSE
          /\ toasts' = {}
          /\ jobs' = [ClosedJobs(jobs) EXCEPT ![j].phase = "done", ![j].final = "text"]
     ELSE /\ jobs' = [ClosedJobs(jobs) EXCEPT ![j].phase = "inflight", ![j].invoked = @ + 1]
          /\ UNCHANGED <<clinicalText, isProcessingFile, toasts>>
  /\ subs' = Closed(subs)
  /\ UNCHANGED <<codingSystem, isLoading, resultVars, fileProcessingError,
                 uploadedFileName, uploadMethod, summaryVars, storeVars>>

\* reader.onerror
ReaderFails(j) ==
  /\ jobs[j].phase = "reading"
  /\ fileProcessingError' =
       IF IsPlainText(jobs[j].file)
       THEN "Error al leer el archivo de texto."
       ELSE "Error al leer el archivo para convertirlo a data URI."
  /\ isProcessingFile' = FALSE
  /\ toasts' = {Toast("destructive", "Error de archivo",
                      IF IsPlainText(jobs[j].file)
                      THEN "No se pudo leer el archivo TXT."
                      ELSE "No se pudo leer el archivo.")}
  /\ jobs' = [ClosedJobs(jobs) EXCEPT ![j].phase = "done", ![j].final = "readerror"]
  /\ subs' = Closed(subs)
  /\ UNCHANGED <<formVars, isLoading, resultVars, uploadedFileName, uploadMethod,
                 summaryVars, storeVars>>

\* a catch block that ends the processing before it arms the retry timer
SettleIngestionIdleBetweenAttempts(j, r) ==
  LET job == jobs[j]
  IN  /\ job.phase = "inflight"
      /\ IF r.status = "fulfilled"
         THEN /\ clinicalText' = r.value
              /\ isProcessingFile' = FALSE
              /\ toasts' = {}
              /\ jobs' = [ClosedJobs(jobs) EXCEPT ![j].phase = "done", ![j].final = "ok"]
              /\ UNCHANGED fileProcessingError
         ELSE IF SchedulesFileRetry(r.reason, job.currentAttempt)
              THEN LET nextDelay ==
                         NextDelay(FILE_PROCESSING_RETRY_DELAYS_MS, job.currentAttempt)
                   IN  /\ jobs' = [ClosedJobs(jobs) EXCEPT ![j].phase = "waiting",
                                               ![j].err = r.reason,
                                               ![j].remaining = nextDelay,
                                               ![j].delays = Append(@, nextDelay)]
                       /\ toasts' = {}
                       /\ isProcessingFile' = FALSE
                       /\ UNCHANGED <<clinicalText, fileProcessingError>>
              ELSE LET userMessage == FileUserMessage(r.reason, job.uploadMethod)
                   IN  /\ fileProcessingError' = userMessage
                       /\ toasts' = {Toast("destructive",
                                           "Error de Procesamiento ("
                                             \o (IF job.uploadMethod = "extensive"
                                                 THEN "Extenso" ELSE "Normal") \o ")",
                                           userMessage)}
                       /\ clinicalText' = FileFailureText(job.file, job.uploadMethod, userMessage)
                       /\ isProcessingFile' = FALSE
                       /\ jobs' = [ClosedJobs(jobs) EXCEPT ![j].phase = "done",
                                               ![j].err = r.reason,
                                               ![j].final = Class(r)]
      /\ subs' = Closed(subs)
      /\ UNCHANGED <<codingSystem, isLoading, resultVars, uploadedFileName, uploadMethod,
                     summaryVars, storeVars>>

\* the document operation settles: the try and catch of reader.onload
SettleIngestion(j, r) ==
  LET job == jobs[j]
  IN  /\ job.phase = "inflight"
      /\ IF r.status = "fulfilled"
         THEN /\ clinicalText' = r.value
              /\ isProcessingFile' = FALSE
              /\ toasts' = {}
              /\ jobs' = [ClosedJobs(jobs) EXCEPT ![j].phase = "done", ![j].final = "ok"]
              /\ UNCHANGED fileProcessingError
         ELSE IF SchedulesFileRetry(r.reason, job.currentAttempt)
              THEN LET nextDelay ==
                         NextDelay(FILE_PROCESSING_RETRY_DELAYS_MS, job.currentAttempt)
                   IN  /\ jobs' = [ClosedJobs(jobs) EXCEPT ![j].phase = "waiting",
                                               ![j].err = r.reason,
                                               ![j].remaining = nextDelay,
                                               ![j].delays = Append(@, nextDelay)]
                       /\ toasts' = {}
                       /\ UNCHANGED <<clinicalText, isProcessingFile, fileProcessingError>>
              ELSE LET userMessage == FileUserMessage(r.reason, job.uploadMethod)
                   IN  /\ fileProcessingError' = userMessage
                       /\ toasts' = {Toast("destructive",
                                           "Error de Procesamiento ("
                                             \o (IF job.uploadMethod = "extensive"
                                                 THEN "Extenso" ELSE "Normal") \o ")",
                                           userMessage)}
                       /\ clinicalText' = FileFailureText(job.file, job.uploadMethod, userMessage)
                       /\ isProcessingFile' = FALSE
                       /\ jobs' = [ClosedJobs(jobs) EXCEPT ![j].phase = "done",
                                               ![j].err = r.reason,
                                               ![j].final = Class(r)]
      /\ subs' = Closed(subs)
      /\ UNCHANGED <<codingSystem, isLoading, resultVars, uploadedFileName, uploadMethod,
                     summaryVars, storeVars>>

\* the retry timer fires:
\* setTimeout(() => processFileForClinicalNotes(file, currentAttempt + 1), nextDelay)
RetryIngestion(j) ==
  /\ jobs[j].phase = "waiting"
  /\ jobs[j].remaining = 0
  /\ BeginProcessing(jobs[j], jobs[j].currentAttempt + 1)
  /\ jobs' = [ClosedJobs(jobs) EXCEPT ![j] = Processing(jobs[j], jobs[j].currentAttempt + 1)]
  /\ subs' = Closed(subs)
  /\ UNCHANGED <<formVars, isLoading, resultVars, uploadedFileName, uploadMethod,
                 summaryVars, storeVars>>

---------------------------------------------------------------------------
(* The document operations: what the two flows return for what the model   *)
(* answers.  A text the model answers is a sequence of characters.         *)

\* file.type, the MIME type the flows are given
MimeType(file) == file.type[1] \o "/" \o file.type[2]

WhiteSpace == {" ", "\n", "\t"}
\* text.trim() === ""
TrimIsEmpty(cs) == \A k \in DOMAIN cs : cs[k] \in WhiteSpace

\* `output' of a prompt: absent, or the text of its one field
NoOutput == [present |-> FALSE, text |-> <<>>]
Output(cs) == [present |-> TRUE, text |-> cs]
ModelOutputs ==
  {NoOutput, Output(<<>>), Output(<<" ", "\n">>),
   Output(<<"T", "o", "s", " ", "s", "e", "c", "a">>)}

\* process.env.NODE_ENV of the build that runs
NodeEnvs == {"production", "development"}

SimulatedText(mimeType) ==
  "--- INICIO DE TEXTO SIMULADO (desde " \o mimeType \o ") --- ... --- FIN DE TEXTO SIMULADO ---"

\* extractTextFromDocumentFlow of src/ai/flows/extract-text-from-document.ts,
\* the module the tool imports
ExtractTextFromDocumentFlow(nodeEnv, file, output) ==
  IF nodeEnv = "development" /\ IsImageOrPdf(file)
  THEN SimulatedText(MimeType(file))
  ELSE IF ~output.present \/ output.text = <<>>
       THEN "No se pudo extraer texto del documento (" \o MimeType(file)
            \o "). Por favor, verifique el archivo o ingrese el texto manualmente."
       ELSE Join(output.text)

\* summarizeExtensiveDocumentFlow
SummarizeExtensiveDocumentFlow(file, output) ==
  IF ~output.present \/ output.text = <<>> \/ TrimIsEmpty(output.text)
  THEN "No se pudo extraer o procesar texto relevante del documento extenso ("
       \o MimeType(file)
       \o ") usando el metodo de documento extenso. Por favor, verifique el archivo o intente con el metodo normal."
  ELSE Join(output.text)

\* resultText of reader.onload: the operation the method of the job selects
ResultText(job, nodeEnv, output) ==
  IF job.uploadMethod = "extensive"
  THEN SummarizeExtensiveDocumentFlow(job.file, output)
  ELSE ExtractTextFromDocumentFlow(nodeEnv, job.file, output)

\* what a document operation may reject with: an error with a message of
\* each kind, or a value without a message
DocumentErrors == {ErrRateLimit, ErrCommunication, ErrMalformed, NoReason}

\* handleUploadMethodChange: the radio group, disabled while a file is
\* processed
UploadMethods == {"normal", "extensive"}
HandleUploadMethodChange(value) ==
  /\ ~isProcessingFile
  /\ value # uploadMethod
  /\ uploadMethod' = value
  /\ toasts' = {}
  /\ subs' = Closed(subs)
  /\ jobs' = ClosedJobs(jobs)
  /\ UNCHANGED <<formVars, isLoading, resultVars, isProcessingFile, fileProcessingError,
                 uploadedFileName, summaryVars, storeVars>>

---------------------------------------------------------------------------
(* Time: setTimeout runs its callback no earlier than the delay it was     *)
(* armed with; the callback of a timer that is due runs in a later step.   *)

\* the delay of the retry timer of a submission elapses
SubmissionTimerDue(i) ==
  /\ subs[i].phase = "waiting"
  /\ subs[i].remaining > 0
  /\ subs' = [Closed(subs) EXCEPT ![i].remaining = 0]
  /\ jobs' = ClosedJobs(jobs)
  /\ UNCHANGED <<formVars, isLoading, resultVars, fileVars, summaryVars, storeVars, toasts>>

\* the delay of the retry timer of an ingestion elapses
IngestionTimerDue(j) ==
  /\ jobs[j].phase = "waiting"
  /\ jobs[j].remaining > 0
  /\ jobs' = [ClosedJobs(jobs) EXCEPT ![j].remaining = 0]
  /\ subs' = Closed(subs)
  /\ UNCHANGED <<formVars, isLoading, resultVars, fileVars, summaryVars, storeVars, toasts>>

---------------------------------------------------------------------------
(* The other handlers of the session.                                      *)

\* the user edits the notes field (disabled while a file is processed)
TypeClinicalText(t) ==
  /\ ~isProcessingFile
  /\ t # clinicalText
  /\ clinicalText' = t
  /\ toasts' = {}
  /\ subs' = Closed(subs)
  /\ jobs' = ClosedJobs(jobs)
  /\ UNCHANGED <<codingSystem, isLoading, resultVars, fileVars, summaryVars,
                 storeVars>>

\* handleClearFile: the button shown beside the uploaded file's name
HandleClearFile ==
  /\ uploadedFileName # null
  /\ ~isProcessingFile
  /\ uploadedFileName' = null
  /\ clinicalText' = ""
  /\ fileProcessingError' = null
  /\ extractedConcepts' = <<>>
  /\ suggestedDiagnoses' = <<>>
  /\ error' = null
  /\ submitted' = FALSE
  /\ clinicalSummary' = null
  /\ toasts' = {}
  /\ subs' = Closed(subs)
  /\ jobs' = ClosedJobs(jobs)
  /\ UNCHANGED <<codingSystem, isLoading, isProcessingFile, uploadMethod,
                 isSummarizing, storeVars>>

\* entry.suggestedDiagnoses.map(diag => ({...diag, id: diag.id || `...`}))
LoadedDiagnoses(diagnoses, nonce) ==
  [index \in DOMAIN diagnoses |->
     [diagnoses[index] EXCEPT !.id =
        IF @ = "" THEN diagnoses[index].code \o "-" \o ToString(nonce)
                       \o "-" \o ToString(nonce)
        ELSE @]]

\* handleLoadFromHistory(entry): the button of a card of the history list,
\* which shows historyEntries
HandleLoadFromHistory(k) ==
  LET entry == historyEntries[k]
  IN  /\ clinicalText' = entry.clinicalText
      /\ codingSystem' = entry.codingSystem
      /\ uploadedFileName' = IF Falsy(entry.fileName) THEN null ELSE entry.fileName
      /\ extractedConcepts' = entry.extractedConcepts
      /\ \E nonce \in Nonces :
           suggestedDiagnoses' = LoadedDiagnoses(entry.suggestedDiagnoses, nonce)
      /\ clinicalSummary' =
           IF Falsy(entry.clinicalSummary) THEN null ELSE entry.clinicalSummary
      /\ submitted' = TRUE
      /\ error' = null
      /\ toasts' = {}
      /\ subs' = Closed(subs)
      /\ jobs' = ClosedJobs(jobs)
      /\ UNCHANGED <<isLoading, isProcessingFile, fileProcessingError, uploadMethod,
                     isSummarizing, storeVars>>

---------------------------------------------------------------------------
(* The diagnosis list: the handlers of the curation.  The list with its    *)
(* handles, checkboxes and stars is rendered when it is not empty and no   *)
(* submission is loading.                                                  *)

\* !isLoading && suggestedDiagnoses.length > 0
ListIsRendered == ~isLoading /\ Len(suggestedDiagnoses) > 0

\* the ids of the items of a list
Ids(items) == {items[k].id : k \in DOMAIN items}

\* Array.prototype.findIndex(item => item.id === id): the first position
\* (from 1) that holds the id, 0 when none does
FindIndex(items, id) ==
  IF id \in Ids(items)
  THEN CHOOSE k \in DOMAIN items :
         items[k].id = id /\ \A m \in 1..(k - 1) : items[m].id # id
  ELSE 0

\* a promotion that leaves the principal where it is
SetPrincipalInPlace(prevDiagnoses, diagnosisId) ==
  [k \in DOMAIN prevDiagnoses |->
     [prevDiagnoses[k] EXCEPT !.isPrincipal = (prevDiagnoses[k].id = diagnosisId)]]

\* the updater of handleSetPrincipalDiagnosis
SetPrincipalDiagnosis(prevDiagnoses, diagnosisId) ==
  LET newDiagnoses ==
        [k \in DOMAIN prevDiagnoses |->
           [prevDiagnoses[k] EXCEPT !.isPrincipal = (prevDiagnoses[k].id = diagnosisId)]]
      found == FindIndex(newDiagnoses, diagnosisId)
  IN  IF found # 0
      THEN LET principal == newDiagnoses[found]
           IN  <<principal>> \o SelectSeq(newDiagnoses, LAMBDA d : d.id # principal.id)
      ELSE newDiagnoses

\* an updater that selects the item whatever its mark was
SelectDiagnosis(prevDiagnoses, diagnosisId) ==
  [k \in DOMAIN prevDiagnoses |->
     IF prevDiagnoses[k].id = diagnosisId
     THEN [prevDiagnoses[k] EXCEPT !.isSelected = TRUE]
     ELSE prevDiagnoses[k]]

\* the updater of handleToggleSelectedDiagnosis
ToggleSelectedDiagnosis(prevDiagnoses, diagnosisId) ==
  [k \in DOMAIN prevDiagnoses |->
     IF prevDiagnoses[k].id = diagnosisId
     THEN [prevDiagnoses[k] EXCEPT !.isSelected = ~@]
     ELSE prevDiagnoses[k]]

\* a move that exchanges the items at `from' and `to'
ArraySwap(array, from, to) ==
  [k \in DOMAIN array |->
     IF k = from THEN array[to] ELSE IF k = to THEN array[from] ELSE array[k]]

\* arrayMove of @dnd-kit/sortable: the item at `from' is taken out and put
\* in at `to' (positions from 1)
ArrayMove(array, from, to) ==
  LET item == array[from]
      rest == Without(array, from)
  IN  SubSeq(rest, 1, to - 1) \o <<item>> \o SubSeq(rest, to, Len(rest))

\* the updater of handleDragEnd
DragEnd(items, activeId, overId) ==
  ArrayMove(items, FindIndex(items, activeId), FindIndex(items, overId))

\* the star of an item is clicked: handleSetPrincipalDiagnosis(id)
HandleSetPrincipalDiagnosis(diagnosisId) ==
  /\ ListIsRendered
  /\ diagnosisId \in Ids(suggestedDiagnoses)
  /\ suggestedDiagnoses' = SetPrincipalDiagnosis(suggestedDiagnoses, diagnosisId)
  /\ toasts' = {}
  /\ subs' = Closed(subs)
  /\ jobs' = ClosedJobs(jobs)
  /\ UNCHANGED <<formVars, isLoading, extractedConcepts, error, submitted, fileVars,
                 summaryVars, storeVars>>

\* the checkbox of an item is clicked: handleToggleSelectedDiagnosis(id)
HandleToggleSelectedDiagnosis(diagnosisId) ==
  /\ ListIsRendered
  /\ diagnosisId \in Ids(suggestedDiagnoses)
  /\ suggestedDiagnoses' = ToggleSelectedDiagnosis(suggestedDiagnoses, diagnosisId)
  /\ toasts' = {}
  /\ subs' = Closed(subs)
  /\ jobs' = ClosedJobs(jobs)
  /\ UNCHANGED <<formVars, isLoading, extractedConcepts, error, submitted, fileVars,
                 summaryVars, storeVars>>

\* an item is dragged by its handle and dropped over another:
\* handleDragEnd({active, over}); a drop over the item itself changes nothing
HandleDragEnd(activeId, overId) ==
  /\ ListIsRendered
  /\ activeId \in Ids(suggestedDiagnoses)
  /\ overId \in Ids(suggestedDiagnoses)
  /\ activeId # overId
  /\ suggestedDiagnoses' = DragEnd(suggestedDiagnoses, activeId, overId)
  /\ toasts' = {}
  /\ subs' = Closed(subs)
  /\ jobs' = ClosedJobs(jobs)
  /\ UNCHANGED <<formVars, isLoading, extractedConcepts, error, submitted, fileVars,
                 summaryVars, storeVars>>

\* handleClearSuggestedDiagnoses: the button in the header of the list
HandleClearSuggestedDiagnoses ==
  /\ ListIsRendered
  /\ ~isProcessingFile
  /\ suggestedDiagnoses' = <<>>
  /\ toasts' = {}
  /\ subs' = Closed(subs)
  /\ jobs' = ClosedJobs(jobs)
  /\ UNCHANGED <<formVars, isLoading, extractedConcepts, error, submitted, fileVars,
                 summaryVars, storeVars>>

---------------------------------------------------------------------------
(* The history store: db.history and the handlers of HistoryPanel.  A call *)
(* to the store takes effect in one step; a handler that awaits two calls  *)
(* takes two steps, and anything may run between them.                     *)

\* files selected for import during one session
MaxImports == 2
\* files selected for import during the session of one case
MaxSessionImports == 1
\* files exported during one session
MaxExports == 1
\* the greatest key the store assigns to a record the save button adds
MaxSavedKey == 2
\* Date.now() readings a saved record may be stamped with
MaxTimestamp == 1
Timestamps == 1..MaxTimestamp

\* checks that accept a diagnosis without a code
DiagnosisIsValidWithoutCode(diag) ==
  /\ TypeOf(Member(diag, "description")) = "string"
  /\ TypeOf(Member(diag, "confidence")) = "number"
  /\ TypeOf(Member(diag, "id")) = "string"
  /\ TypeOf(Member(diag, "isPrincipal")) \in {"boolean", "undefined"}
  /\ TypeOf(Member(diag, "isSelected")) \in {"boolean", "undefined"}

\* the checks of one diagnosis of an imported entry
DiagnosisIsValid(diag) ==
  /\ TypeOf(Member(diag, "code")) = "string"
  /\ TypeOf(Member(diag, "description")) = "string"
  /\ TypeOf(Member(diag, "confidence")) = "number"
  /\ TypeOf(Member(diag, "id")) = "string"
  /\ TypeOf(Member(diag, "isPrincipal")) \in {"boolean", "undefined"}
  /\ TypeOf(Member(diag, "isSelected")) \in {"boolean", "undefined"}

\* Array.prototype.every over the values `check' gives for the elements:
\* "ok" when all are ok, else the first that is not
RECURSIVE Every(_)
Every(checks) ==
  IF checks = <<>> THEN "ok"
  ELSE IF Head(checks) # "ok" THEN Head(checks) ELSE Every(Tail(checks))

\* entry.suggestedDiagnoses.every(diag => ...): a diag that is null throws
DiagnosesCheck(diagnoses) ==
  Every([k \in DOMAIN diagnoses.a |->
           IF HasNoProperties(diagnoses.a[k]) THEN "throws"
           ELSE IF DiagnosisIsValid(diagnoses.a[k]) THEN "ok" ELSE "invalid"])

\* the checks of one imported entry, in the order of the && chain
EntryCheck(entry) ==
  IF HasNoProperties(entry) THEN "throws"
  ELSE IF /\ TypeOf(Member(entry, "timestamp")) = "number"
          /\ TypeOf(Member(entry, "clinicalText")) = "string"
          /\ TypeOf(Member(entry, "codingSystem")) = "string"
          /\ IsArray(Member(entry, "extractedConcepts"))
          /\ IsArray(Member(entry, "suggestedDiagnoses"))
       THEN IF DiagnosesCheck(Member(entry, "suggestedDiagnoses")) = "ok"
            THEN "ok"
            ELSE DiagnosesCheck(Member(entry, "suggestedDiagnoses"))
       ELSE "invalid"

\* JSON.parse(text) and the validation of handleImportFileSelect:
\* "ok", "invalid" (the toast and return) or "throws" (the catch block)
ImportCheck(text) ==
  IF ~text.parses THEN "throws"
  ELSE IF ~IsArray(text.value) THEN "invalid"
  ELSE Every([k \in DOMAIN text.value.a |-> EntryCheck(text.value.a[k])])

\* d.isPrincipal ?? false
Defaulted(v) == IF v.t \in {"undefined", "null"} THEN FALSE ELSE v.b

\* one diagnosis of entriesToAdd
DiagnosisToAdd(d) ==
  [code |-> Member(d, "code").s,
   description |-> Member(d, "description").s,
   confidence |-> Member(d, "confidence").n,
   id |-> Member(d, "id").s,
   isPrincipal |-> Defaulted(Member(d, "isPrincipal")),
   isSelected |-> Defaulted(Member(d, "isSelected"))]

\* one element of entriesToAdd, as the store keeps it under the key it assigns
EntryToAdd(entry, key) ==
  [id |-> key,
   timestamp |-> Member(entry, "timestamp").n,
   clinicalText |-> Member(entry, "clinicalText").s,
   codingSystem |-> Member(entry, "codingSystem").s,
   extractedConcepts |->
     [k \in DOMAIN Member(entry, "extractedConcepts").a |->
        Plain(Member(entry, "extractedConcepts").a[k])],
   suggestedDiagnoses |->
     [k \in DOMAIN Member(entry, "suggestedDiagnoses").a |->
        DiagnosisToAdd(Member(entry, "suggestedDiagnoses").a[k])],
   fileName |-> Plain(Member(entry, "fileName")),
   clinicalSummary |-> Plain(Member(entry, "clinicalSummary"))]

\* a bulkAdd that keeps the key the payload carries
BulkAddTrustingIds(importedEntries, firstKey) ==
  [k \in DOMAIN importedEntries.a |->
     EntryToAdd(importedEntries.a[k],
                IF TypeOf(Member(importedEntries.a[k], "id")) = "number"
                THEN Member(importedEntries.a[k], "id").n ELSE firstKey + k - 1)]

\* db.history.bulkAdd(entriesToAdd): the records, keyed from firstKey on
BulkAdd(importedEntries, firstKey) ==
  [k \in DOMAIN importedEntries.a |-> EntryToAdd(importedEntries.a[k], firstKey + k - 1)]

(* One call of handleImportFileSelect: the text of the file, how far the   *)
(* call is, and a record of what it did (replaced: the records its clear   *)
(* removed; clearedAt: the next key when it cleared).                      *)
NewImport(text) ==
  [text |-> text, phase |-> "reading", replaced |-> <<>>, clearedAt |-> 0]

\* a call that has ended reads its file no more
EndedImport == [NewImport(NotJson) EXCEPT !.phase = "done"]

\* the query of useLiveQuery runs again and HistoryPanel renders its result
LiveQueryUpdates ==
  /\ historyEntries # LiveQuery(history)
  /\ historyEntries' = LiveQuery(history)
  /\ subs' = Closed(subs)
  /\ jobs' = ClosedJobs(jobs)
  /\ UNCHANGED <<formVars, isLoading, resultVars, fileVars, summaryVars, history, nextId,
                 imports, exported, historyToasts, toasts>>

\* db.history.delete(id): the store without the record of that key
Delete(records, id) == SelectSeq(records, LAMBDA r : r.id # id)

\* handleDeleteEntry(entry.id) from the dialog of a card of the list
HandleDeleteEntry(k) ==
  LET id == historyEntries[k].id
  IN  /\ history' = Delete(history, id)
      /\ historyToasts' = {Toast("default", "Entrada eliminada",
                                 "La entrada del historial ha sido eliminada.")}
      /\ subs' = Closed(subs)
      /\ jobs' = ClosedJobs(jobs)
      /\ UNCHANGED <<formVars, isLoading, resultVars, fileVars, summaryVars, nextId,
                     historyEntries, imports, exported, toasts>>

\* handleClearAllHistory; its button is disabled while the list is empty
HandleClearAllHistory ==
  /\ historyEntries # <<>>
  /\ history' = <<>>
  /\ historyToasts' = {Toast("default", "Historial borrado",
                             "Todo el historial de trabajo ha sido eliminado.")}
  /\ subs' = Closed(subs)
  /\ jobs' = ClosedJobs(jobs)
  /\ UNCHANGED <<formVars, isLoading, resultVars, fileVars, summaryVars, nextId,
                 historyEntries, imports, exported, toasts>>

\* handleExportHistory; its button is disabled while the list is empty
HandleExportHistory ==
  /\ historyEntries # <<>>
  /\ Cardinality({exported} \ {NotJson}) < MaxExports
  /\ exported' = Stringify(history)
  /\ historyToasts' = {Toast("default", "Historial Exportado",
                             "El historial se ha descargado como un archivo JSON.")}
  /\ subs' = Closed(subs)
  /\ jobs' = ClosedJobs(jobs)
  /\ UNCHANGED <<formVars, isLoading, resultVars, fileVars, summaryVars, history, nextId,
                 historyEntries, imports, toasts>>

\* a file is chosen in the import dialog: handleImportFileSelect up to
\* reader.readAsText(file)
HandleImportFileSelectWithin(text, selections) ==
  /\ Len(imports) < selections
  /\ imports' = Append(imports, NewImport(text))
  /\ subs' = Closed(subs)
  /\ jobs' = ClosedJobs(jobs)
  /\ UNCHANGED <<formVars, isLoading, resultVars, fileVars, summaryVars, history, nextId,
                 historyEntries, exported, historyToasts, toasts>>

HandleImportFileSelect(text) == HandleImportFileSelectWithin(text, MaxImports)

\* reader.onload of an import up to its first await: the text is parsed and
\* validated, and if it passes db.history.clear() is called
ImportReaderLoads(i) ==
  LET check == ImportCheck(imports[i].text)
  IN  /\ imports[i].phase = "reading"
      /\ CASE check = "ok" ->
                /\ history' = <<>>
                /\ imports' = [imports EXCEPT ![i].phase = "cleared",
                                              ![i].replaced = history,
                                              ![i].clearedAt = nextId]
                /\ UNCHANGED historyToasts
           [] check = "invalid" ->
                /\ historyToasts' =
                     {Toast("destructive", "Archivo No Valido",
                            "El archivo JSON no tiene el formato esperado para el historial.")}
                /\ imports' = [imports EXCEPT ![i] = EndedImport]
                /\ UNCHANGED history
           [] OTHER ->
                /\ historyToasts' =
                     {Toast("destructive", "Error de Importacion",
                            "No se pudo importar el archivo JSON. Verifique el formato.")}
                /\ imports' = [imports EXCEPT ![i] = EndedImport]
                /\ UNCHANGED history
      /\ subs' = Closed(subs)
      /\ jobs' = ClosedJobs(jobs)
      /\ UNCHANGED <<formVars, isLoading, resultVars, fileVars, summaryVars, nextId,
                     historyEntries, exported, toasts>>

\* an import after the await of clear(): entriesToAdd is built and
\* db.history.bulkAdd(entriesToAdd) adds its records
ImportWrites(i) ==
  LET importedEntries == imports[i].text.value
  IN  /\ imports[i].phase = "cleared"
      /\ history' = history \o BulkAdd(importedEntries, nextId)
      /\ nextId' = nextId + Len(importedEntries.a)
      /\ historyToasts' =
           {Toast("default", "Historial Importado",
                  "El historial ha sido reemplazado con el contenido del archivo.")}
      /\ imports' = [imports EXCEPT ![i] = EndedImport]
      /\ subs' = Closed(subs)
      /\ jobs' = ClosedJobs(jobs)
      /\ UNCHANGED <<formVars, isLoading, resultVars, fileVars, summaryVars,
                     historyEntries, exported, toasts>>

\* db.history.bulkAdd rejects (the storage refuses the write): the
\* transaction adds nothing and the catch block reports
ImportWriteFails(i) ==
  /\ imports[i].phase = "cleared"
  /\ historyToasts' =
       {Toast("destructive", "Error de Importacion",
              "No se pudo importar el archivo JSON. Verifique el formato.")}
  /\ imports' = [imports EXCEPT ![i] = EndedImport]
  /\ subs' = Closed(subs)
  /\ jobs' = ClosedJobs(jobs)
  /\ UNCHANGED <<formVars, isLoading, resultVars, fileVars, summaryVars, history, nextId,
                 historyEntries, exported, toasts>>

\* the test handleSaveToHistory makes before it writes
SaveRejected ==
  \/ ~submitted \/ isLoading \/ ~Falsy(error)
  \/ (Len(suggestedDiagnoses) = 0 /\ Falsy(clinicalSummary))

\* a save button that a summary other than null enables
SaveDisabledUnlessSummaryNull ==
  \/ ~(submitted /\ ~isLoading /\ ~isProcessingFile /\ ~isSummarizing /\ Falsy(error))
  \/ isLoading \/ isProcessingFile \/ ~submitted \/ ~Falsy(error)
  \/ (Len(suggestedDiagnoses) = 0 /\ clinicalSummary = null)

\* the save button is absent or disabled
SaveDisabled ==
  \/ ~(submitted /\ ~isLoading /\ ~isProcessingFile /\ ~isSummarizing /\ Falsy(error))
  \/ isLoading \/ isProcessingFile \/ ~submitted \/ ~Falsy(error)
  \/ (Len(suggestedDiagnoses) = 0 /\ Falsy(clinicalSummary))

\* handleSaveToHistory: db.history.add(historyEntry)
HandleSaveToHistory(timestamp) ==
  /\ ~SaveDisabled
  /\ nextId <= MaxSavedKey
  /\ IF SaveRejected
     THEN /\ toasts' = {Toast("destructive", "No se puede guardar",
                              "Debe haber resultados validos (diagnosticos o resumen) para guardar en el historial.")}
          /\ UNCHANGED <<history, nextId>>
     ELSE /\ history' = Append(history,
               [id |-> nextId,
                timestamp |-> timestamp,
                clinicalText |-> clinicalText,
                codingSystem |-> codingSystem,
                extractedConcepts |-> extractedConcepts,
                suggestedDiagnoses |-> suggestedDiagnoses,
                fileName |-> uploadedFileName,
                clinicalSummary |-> clinicalSummary])
          /\ nextId' = nextId + 1
          /\ toasts' = {}
  /\ subs' = Closed(subs)
  /\ jobs' = ClosedJobs(jobs)
  /\ UNCHANGED <<formVars, isLoading, resultVars, fileVars, summaryVars,
                 historyEntries, imports, exported, historyToasts>>

---------------------------------------------------------------------------
(* The clinical summary: handleGenerateSummary.  The button is disabled    *)
(* while a submission, an ingestion or a summary runs; its test of the     *)
(* text reads form.getValues at the last render of the tool, so that the   *)
(* handler's own test of the text decides.                                 *)

\* SummarizeClinicalNotesOutput.summary the service may return
SummaryValues == {"Paciente febril con tos persistente.", ""}
\* the errors the summary operation may reject with
SummaryErrors == {ErrCommunication, ErrMalformed}
SummaryOutcomes ==
  {Fulfilled(s) : s \in SummaryValues} \cup {Rejected(e) : e \in SummaryErrors}

\* the button's disabled attribute, the test of the text apart
GenerateSummaryDisabled == isLoading \/ isProcessingFile \/ isSummarizing

\* summaryErrorMessage of the catch block
SummaryErrorMessage(err) ==
  IF err.message # <<>>
  THEN IF \/ Includes(err.message, NeedleGoogleGenerativeAI)
          \/ Includes(ToLowerCase(err.message), NeedleErrorFetchingFrom)
       THEN "Problema de comunicacion con el servicio de IA al generar el resumen. Verifique su conexion o intente mas tarde."
       ELSE "Error al generar resumen: " \o Join(err.message)
  ELSE "Ocurrio un error al generar el resumen."

\* handleGenerateSummary up to the await
HandleGenerateSummary ==
  /\ ~GenerateSummaryDisabled
  /\ IF Falsy(clinicalText) \/ Len(clinicalText) < MinClinicalTextLength
     THEN /\ toasts' = {Toast("destructive", "Texto Clinico Insuficiente",
                              "Por favor, ingrese al menos 20 caracteres en las notas clinicas para generar un resumen.")}
          /\ UNCHANGED summaryVars
     ELSE /\ isSummarizing' = TRUE
          /\ clinicalSummary' = null
          /\ toasts' = {}
  /\ subs' = Closed(subs)
  /\ jobs' = ClosedJobs(jobs)
  /\ UNCHANGED <<formVars, isLoading, resultVars, fileVars, storeVars>>

\* summarizeClinicalNotes settles: the try, catch and finally of the handler
SettleSummary(r) ==
  /\ isSummarizing
  /\ IF r.status = "fulfilled"
     THEN /\ clinicalSummary' = r.value
          /\ toasts' = {}
     ELSE /\ clinicalSummary' = ""
          /\ toasts' = {Toast("destructive", "Error de Resumen",
                              SummaryErrorMessage(r.reason))}
  /\ isSummarizing' = FALSE
  /\ subs' = Closed(subs)
  /\ jobs' = ClosedJobs(jobs)
  /\ UNCHANGED <<formVars, isLoading, resultVars, fileVars, storeVars>>

---------------------------------------------------------------------------
(* The session.                                                            *)

Next ==
  \/ Submit
  \/ \E i \in DOMAIN subs : \E cr \in ConceptOutcomes : \E dr \in DiagnosisOutcomes :
       AllSettled(i, cr, dr)
  \/ \E i \in DOMAIN subs : RetrySubmission(i)
  \/ \E file \in Files : HandleFileChange(file)
  \/ \E j \in DOMAIN jobs : ReaderLoads(j)
  \/ \E j \in DOMAIN jobs : ReaderFails(j)
  \/ \E j \in DOMAIN jobs : \E r \in IngestionOutcomes : SettleIngestion(j, r)
  \/ \E j \in DOMAIN jobs : RetryIngestion(j)
  \/ \E i \in DOMAIN subs : SubmissionTimerDue(i)
  \/ \E j \in DOMAIN jobs : IngestionTimerDue(j)
  \/ \E t \in TypedTexts : TypeClinicalText(t)
  \/ HandleClearFile
  \/ \E k \in DOMAIN historyEntries : HandleLoadFromHistory(k)

Spec == Init /\ [][Next]_vars

---------------------------------------------------------------------------
(* The files offered for import.                                           *)

\* a diagnosis object of a file; flags are the members after "id"
FileDiagnosis(code, description, id, flags) ==
  JObj(<<<<"code", JStr(code)>>, <<"description", JStr(description)>>,
         <<"confidence", JNum(50)>>, <<"id", JStr(id)>>>> \o flags)

\* an entry object of a file; extra are the members after the required ones
FileEntry(timestamp, codingSystemValue, concepts, diagnoses, extra) ==
  JObj(<<<<"timestamp", JNum(timestamp)>>,
         <<"clinicalText", JStr("Varon de 60 anos con disnea de esfuerzo")>>,
         <<"codingSystem", JStr(codingSystemValue)>>,
         <<"extractedConcepts", JArr(concepts)>>,
         <<"suggestedDiagnoses", JArr(diagnoses)>>>> \o extra)

\* a file that is not JSON is NotJson; a JSON file that holds no array
NotAnArrayFile == Text(JObj(<<<<"history", JArr(<<>>)>>>>))

\* a well-formed entry followed by one whose diagnosis lacks `code'
MissingCodeFile ==
  Text(JArr(<<FileEntry(5, "CIE-10", <<JStr("disnea")>>, <<>>, <<>>),
              FileEntry(6, "CIE-10", <<JStr("disnea")>>,
                        <<JObj(<<<<"description", JStr("Disnea")>>,
                                 <<"confidence", JNum(50)>>,
                                 <<"id", JStr("dx-1")>>>>)>>,
                        <<>>)>>))

\* two well-formed entries: the first carries an id and a file name, and
\* its diagnoses leave out isPrincipal or isSelected
ValidFile ==
  Text(JArr(<<FileEntry(5, "CIE-11", <<JStr("disnea")>>,
                        <<FileDiagnosis("BD11", "Insuficiencia cardiaca", "dx-1",
                                        <<<<"isSelected", JBool(TRUE)>>>>),
                          FileDiagnosis("CA22", "EPOC", "dx-2",
                                        <<<<"isPrincipal", JBool(TRUE)>>>>)>>,
                        <<<<"id", JNum(1)>>, <<"fileName", JStr("alta.pdf")>>,
                          <<"clinicalSummary", JNull>>>>),
              FileEntry(3, "CIE-10", <<>>, <<>>, <<>>)>>))

\* an entry whose coding system is none of the three and whose concepts
\* hold a number
OddFile ==
  Text(JArr(<<FileEntry(5, "ICD-9", <<JStr("disnea"), JNum(7)>>, <<>>, <<>>)>>))

\* an entry with two diagnoses marked principal and two that share an id
TwoPrincipalsFile ==
  Text(JArr(<<FileEntry(5, "CIE-10", <<JStr("disnea")>>,
                        <<FileDiagnosis("I50", "Insuficiencia cardiaca", "dx-1",
                                        <<<<"isPrincipal", JBool(TRUE)>>>>),
                          FileDiagnosis("J44", "EPOC", "dx-2",
                                        <<<<"isPrincipal", JBool(TRUE)>>>>),
                          FileDiagnosis("R06", "Disnea", "dx-1", <<>>)>>,
                        <<>>)>>))

StoreFiles == {NotJson, NotAnArrayFile, MissingCodeFile, ValidFile, OddFile}
CurationFiles == {TwoPrincipalsFile}

---------------------------------------------------------------------------
(* The session of the curation: results arrive, records are loaded from    *)
(* the history (which an import may have written), and the list is curated.*)

CurationNext ==
  \/ Submit
  \/ \E i \in DOMAIN subs : \E v \in ConceptValues : \E w \in DiagnosisValues :
       AllSettled(i, Fulfilled(v), Fulfilled(w))
  \/ \E k \in DOMAIN historyEntries : HandleLoadFromHistory(k)
  \/ \E id \in Ids(suggestedDiagnoses) : HandleSetPrincipalDiagnosis(id)
  \/ \E id \in Ids(suggestedDiagnoses) : HandleToggleSelectedDiagnosis(id)
  \/ \E activeId \in Ids(suggestedDiagnoses) : \E overId \in Ids(suggestedDiagnoses) :
       HandleDragEnd(activeId, overId)
  \/ HandleClearSuggestedDiagnoses
  \/ \E text \in CurationFiles : HandleImportFileSelect(text)
  \/ \E i \in DOMAIN imports : ImportReaderLoads(i)
  \/ \E i \in DOMAIN imports : ImportWrites(i)
  \/ LiveQueryUpdates

CurationSpec == Init /\ [][CurationNext]_vars

---------------------------------------------------------------------------
(* The session of the history: records are loaded, saved, deleted,         *)
(* exported and imported.                                                  *)

StoreNext ==
  \/ \E k \in DOMAIN historyEntries : HandleLoadFromHistory(k)
  \/ \E timestamp \in Timestamps : HandleSaveToHistory(timestamp)
  \/ \E k \in DOMAIN historyEntries : HandleDeleteEntry(k)
  \/ HandleClearAllHistory
  \/ HandleExportHistory
  \/ \E text \in StoreFiles \cup ({exported} \ {NotJson}) : HandleImportFileSelect(text)
  \/ \E i \in DOMAIN imports : ImportReaderLoads(i)
  \/ \E i \in DOMAIN imports : ImportWrites(i)
  \/ \E i \in DOMAIN imports : ImportWriteFails(i)
  \/ LiveQueryUpdates

StoreSpec == Init /\ [][StoreNext]_vars

---------------------------------------------------------------------------
(* The session of one case: its text is typed, submitted and summarized,   *)
(* its diagnosis list is cleared, and it is saved.                         *)

\* the texts typed: one the form accepts and one it refuses
SessionTexts == TypedTexts \cup {"Fiebre"}

SessionNext ==
  \/ \E t \in SessionTexts : TypeClinicalText(t)
  \/ SubmitWithin(MaxSessionSubmissions)
  \/ \E i \in DOMAIN subs : \E cr \in ConceptOutcomes : \E dr \in DiagnosisOutcomes :
       AllSettled(i, cr, dr)
  \/ \E i \in DOMAIN subs : RetrySubmission(i)
  \/ \E i \in DOMAIN subs : SubmissionTimerDue(i)
  \/ HandleGenerateSummary
  \/ \E r \in SummaryOutcomes : SettleSummary(r)
  \/ HandleClearSuggestedDiagnoses
  \/ \E timestamp \in {MaxTimestamp} : HandleSaveToHistory(timestamp)
  \/ LiveQueryUpdates

SessionSpec == Init /\ [][SessionNext]_vars

---------------------------------------------------------------------------
(* The form: its fields are typed or loaded from a record, an imported one *)
(* included, and it is submitted.                                          *)

FormNext ==
  \/ \E t \in SessionTexts : TypeClinicalText(t)
  \/ SubmitWithin(MaxSessionSubmissions)
  \/ \E i \in DOMAIN subs : \E cr \in ConceptOutcomes : \E dr \in DiagnosisOutcomes :
       AllSettled(i, cr, dr)
  \/ \E i \in DOMAIN subs : RetrySubmission(i)
  \/ \E i \in DOMAIN subs : SubmissionTimerDue(i)
  \/ \E k \in DOMAIN historyEntries : HandleLoadFromHistory(k)
  \/ \E text \in {OddFile} : HandleImportFileSelectWithin(text, MaxSessionImports)
  \/ \E i \in DOMAIN imports : ImportReaderLoads(i)
  \/ \E i \in DOMAIN imports : ImportWrites(i)
  \/ LiveQueryUpdates

FormSpec == Init /\ [][FormNext]_vars

---------------------------------------------------------------------------
(* The session of ingestions: files of every kind are selected, one after  *)
(* the other, under either method, read and processed.                     *)

IngestionFiles == {FilePdf, FileTxt, FileDocx, FileEmptyTxt}

IngestionNext ==
  \/ \E value \in UploadMethods : HandleUploadMethodChange(value)
  \/ \E file \in IngestionFiles : HandleFileChangeWithin(file, MaxIngestionUploads)
  \/ \E j \in DOMAIN jobs : ReaderLoads(j)
  \/ \E j \in DOMAIN jobs : ReaderFails(j)
  \/ \E j \in DOMAIN jobs : \E nodeEnv \in NodeEnvs : \E output \in ModelOutputs :
       SettleIngestion(j, Fulfilled(ResultText(jobs[j], nodeEnv, output)))
  \/ \E j \in DOMAIN jobs : \E e \in DocumentErrors : SettleIngestion(j, Rejected(e))
  \/ \E j \in DOMAIN jobs : RetryIngestion(j)
  \/ \E j \in DOMAIN jobs : IngestionTimerDue(j)
  \/ \E t \in TypedTexts : TypeClinicalText(t)
  \/ HandleClearFile

IngestionSpec == Init /\ [][IngestionNext]_vars

---------------------------------------------------------------------------
(* The list of a loaded record: a file is imported, its record is loaded   *)
(* and its diagnoses are curated.                                          *)

\* an entry with three diagnoses of three ids
ThreeDiagnosesFile ==
  Text(JArr(<<FileEntry(5, "CIE-10", <<JStr("disnea")>>,
                        <<FileDiagnosis("I50", "Insuficiencia cardiaca", "dx-1",
                                        <<<<"isPrincipal", JBool(TRUE)>>>>),
                          FileDiagnosis("J44", "EPOC", "dx-2",
                                        <<<<"isSelected", JBool(TRUE)>>>>),
                          FileDiagnosis("R06", "Disnea", "dx-3", <<>>)>>,
                        <<>>)>>))

ListFiles == {ThreeDiagnosesFile, TwoPrincipalsFile}

ListNext ==
  \/ \E text \in ListFiles : HandleImportFileSelectWithin(text, MaxSessionImports)
  \/ \E i \in DOMAIN imports : ImportReaderLoads(i)
  \/ \E i \in DOMAIN imports : ImportWrites(i)
  \/ LiveQueryUpdates
  \/ \E k \in DOMAIN historyEntries : HandleLoadFromHistory(k)
  \/ \E id \in Ids(suggestedDiagnoses) : HandleSetPrincipalDiagnosis(id)
  \/ \E id \in Ids(suggestedDiagnoses) : HandleToggleSelectedDiagnosis(id)
  \/ \E activeId \in Ids(suggestedDiagnoses) : \E overId \in Ids(suggestedDiagnoses) :
       HandleDragEnd(activeId, overId)
  \/ HandleClearSuggestedDiagnoses

ListSpec == Init /\ [][ListNext]_vars

---------------------------------------------------------------------------
(* Every kind of operation on one case and on the store.  The text comes   *)
(* from a record or from a text file, and the list of the history view is  *)
(* the one read when the tool was opened.                                  *)

\* the settled results of one attempt: the concepts arrive, the diagnoses
\* arrive or are refused for the rate limit
FrameDiagnosisOutcomes == DiagnosisOutcomes \ {Rejected(ErrMalformed)}
\* the summaries that arrive
FrameSummaryOutcomes == {r \in SummaryOutcomes : r.status = "fulfilled" /\ ~Falsy(r.value)}

FrameNext ==
  \/ SubmitWithin(MaxSessionSubmissions)
  \/ \E i \in DOMAIN subs : \E v \in ConceptValues : \E dr \in FrameDiagnosisOutcomes :
       AllSettled(i, Fulfilled(v), dr)
  \/ \E i \in DOMAIN subs : RetrySubmission(i)
  \/ \E i \in DOMAIN subs : SubmissionTimerDue(i)
  \/ HandleGenerateSummary
  \/ \E r \in FrameSummaryOutcomes : SettleSummary(r)
  \/ \E file \in {FileTxt} : HandleFileChange(file)
  \/ \E j \in DOMAIN jobs : ReaderLoads(j)
  \/ \E k \in DOMAIN historyEntries : HandleLoadFromHistory(k)
  \/ \E id \in Ids(suggestedDiagnoses) : HandleSetPrincipalDiagnosis(id)
  \/ \E id \in Ids(suggestedDiagnoses) : HandleToggleSelectedDiagnosis(id)
  \/ \E activeId \in Ids(suggestedDiagnoses) : \E overId \in Ids(suggestedDiagnoses) :
       HandleDragEnd(activeId, overId)
  \/ HandleClearSuggestedDiagnoses
  \/ \E timestamp \in {MaxTimestamp} : HandleSaveToHistory(timestamp)
  \/ \E k \in DOMAIN historyEntries : HandleDeleteEntry(k)
  \/ HandleClearAllHistory
  \/ \E text \in {OddFile} : HandleImportFileSelectWithin(text, MaxSessionImports)
  \/ \E i \in DOMAIN imports : ImportReaderLoads(i)
  \/ \E i \in DOMAIN imports : ImportWrites(i)

FrameSpec == Init /\ [][FrameNext]_vars

---------------------------------------------------------------------------
(* What the retry scheduling guarantees.                                   *)

\* the calls of onSubmit and of handleFileChange the state still describes
Calls == {i \in DOMAIN subs : subs[i].phase \in {"inflight", "waiting", "done"}}
Ingestions ==
  {j \in DOMAIN jobs : jobs[j].phase \in {"reading", "inflight", "waiting", "done"}}

FailedRetryably(r) == r.status = "rejected" /\ Retryable[r.reason]
FailedPermanently(r) == r.status = "rejected" /\ ~Retryable[r.reason]

\* C1 (retry ceiling): a submission makes at most 4 attempts and each
\* attempt invokes both suggestion operations once; another attempt is
\* scheduled only after an attempt in which an operation failed retryably,
\* and never after the fourth; a submission that finalizes on a retryable
\* failure has made exactly 4 invocations of each operation, and one that
\* finalizes on attempt k without a retryable failure has made exactly k.
\* An ingestion makes at most 4 attempts, each invoking the document
\* operation once its file has been read; it schedules another attempt only
\* after a retryable failure and never after the fourth.
C1_RetryCeiling ==
  /\ \A i \in Calls :
       LET sub == subs[i]
       IN  /\ sub.currentAttempt \in 1..MAX_AI_SUGGESTION_ATTEMPTS
           /\ sub.invokedConcepts = sub.currentAttempt
           /\ sub.invokedDiagnoses = sub.currentAttempt
           /\ Len(sub.delays) =
                IF sub.phase = "waiting" THEN sub.currentAttempt
                                         ELSE sub.currentAttempt - 1
           /\ sub.phase = "waiting" =>
                /\ \/ FailedRetryably(sub.conceptsResult)
                   \/ FailedRetryably(sub.diagnosesResultFromAI)
                /\ sub.currentAttempt < MAX_AI_SUGGESTION_ATTEMPTS
           /\ (sub.phase = "done" /\ "retry" \in {sub.final[1], sub.final[2]}) =>
                /\ sub.currentAttempt = MAX_AI_SUGGESTION_ATTEMPTS
                /\ sub.invokedConcepts = 4
                /\ sub.invokedDiagnoses = 4
  /\ \A j \in Ingestions :
       LET job == jobs[j]
       IN  /\ job.currentAttempt \in 1..MAX_FILE_PROCESSING_ATTEMPTS
           /\ job.invoked =
                IF job.phase = "reading" \/ job.final \in {"readerror", "unsupported", "text"}
                THEN job.currentAttempt - 1 ELSE job.currentAttempt
           /\ Len(job.delays) =
                IF job.phase = "waiting" THEN job.currentAttempt
                                         ELSE job.currentAttempt - 1
           /\ job.phase = "waiting" =>
                /\ Retryable[job.err]
                /\ job.currentAttempt < MAX_FILE_PROCESSING_ATTEMPTS
           /\ (job.phase = "done" /\ job.final = "retry") =>
                /\ job.currentAttempt = MAX_FILE_PROCESSING_ATTEMPTS
                /\ job.invoked = 4

\* a submission finalizes after four attempts that all failed retryably,
\* while the fourth invocation of an ingestion is in flight
C1_FourAttemptsMade ==
  /\ \E i \in DOMAIN subs :
       /\ subs[i].phase = "done"
       /\ subs[i].final = <<"retry", "retry">>
       /\ subs[i].invokedConcepts = 4
       /\ subs[i].invokedDiagnoses = 4
  /\ \E j \in DOMAIN jobs :
       /\ jobs[j].phase = "inflight"
       /\ jobs[j].invoked = 4

\* C2 as stated: an operation that has failed with a permanent error is not
\* invoked again, in an ingestion or in a submission.
C2_PermanentFailureInvokedOnce ==
  [][/\ \A i \in DOMAIN subs :
          /\ (subs[i].phase = "waiting" /\ FailedPermanently(subs[i].conceptsResult))
               => subs'[i].invokedConcepts <= subs[i].invokedConcepts
          /\ (subs[i].phase = "waiting" /\ FailedPermanently(subs[i].diagnosesResultFromAI))
               => subs'[i].invokedDiagnoses <= subs[i].invokedDiagnoses
     /\ \A j \in DOMAIN jobs :
          (jobs[j].phase \in {"waiting", "reading"} /\ jobs[j].err # NoReason
             /\ ~Retryable[jobs[j].err])
            => jobs'[j].invoked <= jobs[j].invoked]_vars

\* C2 (amended): an ingestion makes no further call after a permanent error;
\* in a submission an operation that has failed with a permanent error is
\* invoked again only by the joint retry its sibling's retryable failure on
\* the same attempt causes, and an attempt in which no operation failed
\* retryably is the last one.
C2_PermanentFailureRetriedOnlyJointly ==
  [][/\ \A i \in DOMAIN subs :
          /\ subs'[i].currentAttempt > subs[i].currentAttempt =>
               /\ subs[i].phase = "waiting"
               /\ \/ FailedRetryably(subs[i].conceptsResult)
                  \/ FailedRetryably(subs[i].diagnosesResultFromAI)
          /\ (subs'[i].invokedConcepts > subs[i].invokedConcepts
                /\ FailedPermanently(subs[i].conceptsResult))
               => FailedRetryably(subs[i].diagnosesResultFromAI)
          /\ (subs'[i].invokedDiagnoses > subs[i].invokedDiagnoses
                /\ FailedPermanently(subs[i].diagnosesResultFromAI))
               => FailedRetryably(subs[i].conceptsResult)
     /\ \A j \in DOMAIN jobs :
          /\ jobs'[j].currentAttempt > jobs[j].currentAttempt =>
               jobs[j].phase = "waiting" /\ Retryable[jobs[j].err]
          /\ (jobs'[j].invoked > jobs[j].invoked /\ jobs[j].currentAttempt > 1)
               => Retryable[jobs[j].err]]_vars

\* concept extraction, rejected with a permanent error on attempt 1, is in
\* flight again on attempt 2 because diagnosis suggestion failed retryably
C2_PermanentFailureInvokedAgain ==
  \E i \in DOMAIN subs :
    /\ subs[i].phase = "inflight"
    /\ subs[i].currentAttempt = 2
    /\ FailedPermanently(subs[i].conceptsResult)
    /\ FailedRetryably(subs[i].diagnosesResultFromAI)
    /\ subs[i].callConcepts = Pending
    /\ subs[i].invokedConcepts = 2

\* C3 (delay schedule): the delays a submission or an ingestion has armed
\* are D[0], D[1], ... in order, the one armed after failed attempt k being
\* D[k-1]; attempt k+1 starts only from the wait that followed attempt k,
\* once that delay has elapsed.
C3_DelaySchedule ==
  /\ [](/\ \A i \in Calls :
             /\ subs[i].delays =
                  SubSeq(AI_SUGGESTION_RETRY_DELAYS_MS, 1, Len(subs[i].delays))
             /\ subs[i].phase = "waiting" =>
                  /\ Len(subs[i].delays) = subs[i].currentAttempt
                  /\ subs[i].remaining \in
                       {0, AI_SUGGESTION_RETRY_DELAYS_MS[subs[i].currentAttempt]}
        /\ \A j \in Ingestions :
             /\ jobs[j].delays =
                  SubSeq(FILE_PROCESSING_RETRY_DELAYS_MS, 1, Len(jobs[j].delays))
             /\ jobs[j].phase = "waiting" =>
                  /\ Len(jobs[j].delays) = jobs[j].currentAttempt
                  /\ jobs[j].remaining \in
                       {0, FILE_PROCESSING_RETRY_DELAYS_MS[jobs[j].currentAttempt]})
  /\ [][/\ \A i \in DOMAIN subs :
             subs'[i].currentAttempt > subs[i].currentAttempt =>
               /\ subs[i].phase = "waiting"
               /\ subs[i].remaining = 0
               /\ subs'[i].currentAttempt = subs[i].currentAttempt + 1
        /\ \A j \in DOMAIN jobs :
             jobs'[j].currentAttempt > jobs[j].currentAttempt =>
               /\ jobs[j].phase = "waiting"
               /\ jobs[j].remaining = 0
               /\ jobs'[j].currentAttempt = jobs[j].currentAttempt + 1]_vars

\* the fourth attempt of a submission is in flight after the waits 2000,
\* 3000 and 15000, and an ingestion has armed the same three
C3_ThreeDelaysArmed ==
  /\ \E i \in DOMAIN subs :
       /\ subs[i].phase = "inflight"
       /\ subs[i].currentAttempt = 4
       /\ subs[i].delays = <<2000, 3000, 15000>>
  /\ \E j \in DOMAIN jobs :
       /\ jobs[j].phase \in {"reading", "inflight"}
       /\ jobs[j].currentAttempt = 4
       /\ jobs[j].delays = <<2000, 3000, 15000>>
\* the calls that are not over
LiveCalls == {i \in DOMAIN subs : subs[i].phase \in {"inflight", "waiting"}}
LiveIngestions ==
  {j \in DOMAIN jobs : jobs[j].phase \in {"reading", "inflight", "waiting"}}

\* C4 (no concurrent attempts): at most one submission and at most one
\* ingestion is running or waiting on its retry timer at any time, because
\* the submit button is disabled while a submission is and the file input
\* while an ingestion is, whatever else the user does; and attempt k+1 of a
\* submission or an ingestion starts only from the wait that follows the
\* settling of attempt k.
C4_OneAttemptAtATime ==
  /\ [](/\ Cardinality(LiveCalls) <= 1
        /\ Cardinality(LiveIngestions) <= 1
        /\ LiveCalls # {} => SubmitDisabled
        /\ LiveIngestions # {} => FileInputDisabled)
  /\ [][/\ \A i \in DOMAIN subs :
             subs'[i].invokedConcepts + subs'[i].invokedDiagnoses
               > subs[i].invokedConcepts + subs[i].invokedDiagnoses =>
               /\ subs[i].phase = "waiting"
               /\ subs[i].callConcepts.status # "pending"
               /\ subs[i].callDiagnoses.status # "pending"
        /\ \A j \in DOMAIN jobs :
             jobs'[j].invoked > jobs[j].invoked => jobs[j].phase = "reading"]_vars

\* the second submission of the session waits on its retry timer, and so
\* does an ingestion, after the user has uploaded a file and loaded a
\* history record
C4_UserActsDuringRetries ==
  /\ Len(subs) = 2
  /\ subs[2].phase = "waiting"
  /\ subs[2].remaining > 0
  /\ \E j \in DOMAIN jobs : jobs[j].phase = "waiting" /\ jobs[j].remaining > 0
  /\ clinicalText = StoredEntry.clinicalText
  /\ suggestedDiagnoses = StoredEntry.suggestedDiagnoses

\* C5 (late success): a submission whose retried attempts all had concept
\* extraction succeed and diagnosis suggestion fail retryably, and whose
\* attempt k+1 has both succeed, ends with both lists holding what that
\* attempt returned, no error and no error toast, isLoading false, k+1
\* invocations of each operation and the delays D[0..k-1] in order.
C5_LateSuccess ==
  \A i \in Calls :
    (/\ subs[i].phase = "done"
     /\ subs[i].final = <<"ok", "ok">>
     /\ subs[i].failed = {"diagnoses"}) =>
      LET k == subs[i].currentAttempt - 1
      IN  /\ k \in 1..3
          /\ extractedConcepts = subs[i].conceptsResult.value
          /\ extractedConcepts # <<>>
          /\ \E nonce \in Nonces :
               suggestedDiagnoses =
                 WithUIFields(subs[i].diagnosesResultFromAI.value, nonce)
          /\ suggestedDiagnoses # <<>>
          /\ error = null
          /\ toasts = {}
          /\ isLoading = FALSE
          /\ subs[i].invokedDiagnoses = k + 1
          /\ subs[i].invokedConcepts = k + 1
          /\ subs[i].delays = SubSeq(AI_SUGGESTION_RETRY_DELAYS_MS, 1, k)

\* a submission succeeds on attempt 4 after diagnosis suggestion alone has
\* failed retryably three times
C5_SuccessOnFourthAttempt ==
  \E i \in DOMAIN subs :
    /\ subs[i].phase = "done"
    /\ subs[i].final = <<"ok", "ok">>
    /\ subs[i].failed = {"diagnoses"}
    /\ subs[i].currentAttempt = 4
    /\ Len(suggestedDiagnoses) = 2

\* C6 (joint retry): every attempt of a submission invokes both operations,
\* so the two have been invoked the same number of times, and while an
\* attempt is in flight both calls of it are pending or settled, none is
\* left over from an earlier attempt.
C6_JointRetry ==
  \A i \in Calls :
    /\ subs[i].invokedConcepts = subs[i].invokedDiagnoses
    /\ subs[i].invokedConcepts = subs[i].currentAttempt
    /\ subs[i].phase = "inflight" =>
         /\ subs[i].callConcepts = Pending
         /\ subs[i].callDiagnoses = Pending

\* attempt 2 has invoked concept extraction again although on attempt 1 it
\* succeeded and only diagnosis suggestion failed retryably
C6_SucceededOperationInvokedAgain ==
  \E i \in DOMAIN subs :
    /\ subs[i].phase = "inflight"
    /\ subs[i].currentAttempt = 2
    /\ subs[i].conceptsResult.status = "fulfilled"
    /\ FailedRetryably(subs[i].diagnosesResultFromAI)
    /\ subs[i].callConcepts = Pending
    /\ subs[i].invokedConcepts = 2
    /\ subs[i].invokedDiagnoses = 2
\* C7 (partial success): when a submission finalizes with exactly one
\* operation rejected, permanently or retryably on the fourth attempt, the
\* list of the fulfilled operation holds what it returned and a destructive
\* toast carries the error of the rejected one.
C7_PartialSuccess ==
  \A i \in Calls :
    subs[i].phase = "done" =>
      LET cr == subs[i].conceptsResult
          dr == subs[i].diagnosesResultFromAI
      IN  /\ (cr.status = "fulfilled" /\ dr.status = "rejected") =>
               /\ extractedConcepts = cr.value
               /\ DiagnoseErrorToast(dr.reason) \in toasts
               /\ FailedRetryably(dr) =>
                    subs[i].currentAttempt = MAX_AI_SUGGESTION_ATTEMPTS
          /\ (cr.status = "rejected" /\ dr.status = "fulfilled") =>
               /\ \E nonce \in Nonces :
                    suggestedDiagnoses = WithUIFields(dr.value, nonce)
               /\ ConceptErrorToast(cr.reason) \in toasts
               /\ FailedRetryably(cr) =>
                    subs[i].currentAttempt = MAX_AI_SUGGESTION_ATTEMPTS

\* a submission finalizes with the concepts committed and diagnosis
\* suggestion rejected with a permanent error
C7_ConceptsCommittedDiagnosesRejected ==
  \E i \in DOMAIN subs :
    /\ subs[i].phase = "done"
    /\ subs[i].final = <<"ok", "perm">>
    /\ extractedConcepts = <<"fiebre", "tos">>
    /\ suggestedDiagnoses = <<>>
    /\ DiagnoseErrorToast(ErrMalformed) \in toasts

\* C8 (double permanent failure): the attempt in which both operations are
\* rejected with permanent errors is the last of its submission (the only
\* one when it is the first); the step that finalizes it sets the session
\* error to the combined error and writes neither list.
C8_DoublePermanentFailure ==
  [][\A i \in DOMAIN subs :
       (/\ subs[i].phase = "inflight"
        /\ subs'[i].phase # "inflight"
        /\ FailedPermanently(subs'[i].conceptsResult)
        /\ FailedPermanently(subs'[i].diagnosesResultFromAI)) =>
         /\ subs'[i].phase = "done"
         /\ subs'[i].currentAttempt = subs[i].currentAttempt
         /\ subs[i].currentAttempt = 1 =>
              subs'[i].invokedConcepts = 1 /\ subs'[i].invokedDiagnoses = 1
         /\ error' = BothFailedError
         /\ extractedConcepts' = extractedConcepts
         /\ suggestedDiagnoses' = suggestedDiagnoses]_vars

\* a submission has finalized on attempt 1 with both operations rejected
\* permanently
C8_BothRejectedOnFirstAttempt ==
  \E i \in DOMAIN subs :
    /\ subs[i].phase = "done"
    /\ subs[i].final = <<"perm", "perm">>
    /\ subs[i].currentAttempt = 1
    /\ error = BothFailedError
    /\ extractedConcepts = <<>>
    /\ suggestedDiagnoses = <<>>

\* C9 (clearing): the step that starts a submission leaves both lists empty
\* and its two calls pending; the step that starts attempt 2, 3 or 4 of a
\* submission leaves both lists as they are.
C9_ClearedOnFirstAttemptOnly ==
  [][/\ \A i \in DOMAIN subs' \ DOMAIN subs :
          /\ subs'[i].currentAttempt = 1
          /\ subs'[i].callConcepts = Pending
          /\ subs'[i].callDiagnoses = Pending
          /\ extractedConcepts' = <<>>
          /\ suggestedDiagnoses' = <<>>
     /\ \A i \in DOMAIN subs :
          subs'[i].currentAttempt > subs[i].currentAttempt =>
            /\ subs'[i].currentAttempt \in 2..4
            /\ extractedConcepts' = extractedConcepts
            /\ suggestedDiagnoses' = suggestedDiagnoses]_vars

\* attempt 2 of a submission is in flight and both lists hold the history
\* record that was loaded during the submission
C9_ListsKeptOnRetry ==
  \E i \in DOMAIN subs :
    /\ subs[i].phase = "inflight"
    /\ subs[i].currentAttempt >= 2
    /\ extractedConcepts = StoredEntry.extractedConcepts
    /\ suggestedDiagnoses = StoredEntry.suggestedDiagnoses

\* C10 as stated: every invocation carries a generation token, and only the
\* submission of the latest generation has results to write.
C10_GenerationToken ==
  \A i \in Calls :
    /\ i = Len(subs)
    /\ subs[i].phase = "inflight" =>
         /\ "generation" \in DOMAIN ConceptsInput(subs[i].data)
         /\ "generation" \in DOMAIN DiagnosesInput(subs[i].data)

\* C10 (amended): no submission can be started while an earlier one is in
\* flight or waiting on its retry timer, the submit button being disabled
\* all that time, so the only submission with results to write is the
\* latest; the invocations carry the submitted text and coding system and
\* no generation token.
C10_LatestSubmissionOnly ==
  /\ [](/\ \A i \in Calls : i = Len(subs)
        /\ LiveCalls # {} => SubmitDisabled
        /\ \A i \in LiveCalls :
             /\ DOMAIN ConceptsInput(subs[i].data) = {"documentText"}
             /\ DOMAIN DiagnosesInput(subs[i].data) = {"clinicalText", "codingSystem"})
  /\ [][Len(subs') > Len(subs) => LiveCalls = {}]_vars

\* a submission waits on its retry timer while the form holds a text that
\* could be submitted, and the submit button is disabled
C10_SubmitDisabledDuringWait ==
  /\ Len(subs) = 1
  /\ subs[1].phase = "waiting"
  /\ subs[1].remaining > 0
  /\ FormIsValid
  /\ clinicalText # subs[1].data.clinicalText
  /\ SubmitDisabled

---------------------------------------------------------------------------
(* What the curation of the diagnosis list keeps.                          *)

\* the positions of the list that are marked principal
Principals(items) == {k \in DOMAIN items : items[k].isPrincipal}

(* C11: in every reachable state of the session, whatever sequence of      *)
(* fresh results, promotions, selections, reorders, clears and loads from  *)
(* the history (records written by an import included) led to it, at most  *)
(* one item of the diagnosis list is marked principal.                     *)
C11_AtMostOnePrincipal == Cardinality(Principals(suggestedDiagnoses)) <= 1

\* a list with no item marked principal
Demoted(items) == [k \in DOMAIN items |-> [items[k] EXCEPT !.isPrincipal = FALSE]]

(* C12: a promotion of the item `id' of the list, whether the list came    *)
(* from an analysis or from the history, yields the same items with the    *)
(* promoted one first and marked principal, every other item unmarked and  *)
(* in its earlier relative order, and no other field changed.              *)
C12_PromotionPermutes ==
  [][\A id \in Ids(suggestedDiagnoses) :
       HandleSetPrincipalDiagnosis(id) =>
         \E j \in DOMAIN suggestedDiagnoses :
           /\ suggestedDiagnoses[j].id = id
           /\ suggestedDiagnoses' =
                <<[suggestedDiagnoses[j] EXCEPT !.isPrincipal = TRUE]>>
                \o Demoted(Without(suggestedDiagnoses, j))]_vars

\* the items of a list, whatever their order
Items(items) == {items[k] : k \in DOMAIN items}

(* C13 as claimed: in every reachable state a diagnosis that is marked     *)
(* principal is the first item of the list.                                *)
C13_PrincipalIsFirst == \A k \in Principals(suggestedDiagnoses) : k = 1

(* C13: a promotion leaves the promoted diagnosis first and the only one   *)
(* marked principal; a selection toggle moves no item and changes no       *)
(* principal mark; a reorder moves the items, the principal among them,    *)
(* and changes no field of any.                                            *)
C13_PromotedFirstUntilReordered ==
  [][/\ \A id \in Ids(suggestedDiagnoses) :
          HandleSetPrincipalDiagnosis(id) =>
            /\ suggestedDiagnoses'[1].id = id
            /\ Principals(suggestedDiagnoses') = {1}
     /\ \A id \in Ids(suggestedDiagnoses) :
          HandleToggleSelectedDiagnosis(id) =>
            /\ Len(suggestedDiagnoses') = Len(suggestedDiagnoses)
            /\ \A k \in DOMAIN suggestedDiagnoses :
                 suggestedDiagnoses'[k] =
                   [suggestedDiagnoses[k] EXCEPT !.isSelected = suggestedDiagnoses'[k].isSelected]
     /\ \A activeId \in Ids(suggestedDiagnoses) : \A overId \in Ids(suggestedDiagnoses) :
          HandleDragEnd(activeId, overId) =>
            /\ Len(suggestedDiagnoses') = Len(suggestedDiagnoses)
            /\ Items(suggestedDiagnoses') = Items(suggestedDiagnoses)]_vars

\* a reorder has put the only principal diagnosis below another item
C13_PrincipalDraggedDown ==
  /\ Cardinality(Principals(suggestedDiagnoses)) = 1
  /\ 1 \notin Principals(suggestedDiagnoses)

---------------------------------------------------------------------------
(* What the history store keeps.                                           *)

\* the keys of the records of a store
Keys(records) == {records[k].id : k \in DOMAIN records}

\* the record `r' carries the field values of the payload element `entry'
CarriesPayload(r, entry) ==
  LET diagnoses == Member(entry, "suggestedDiagnoses").a
      concepts == Member(entry, "extractedConcepts").a
  IN  /\ r.timestamp = Member(entry, "timestamp").n
      /\ r.clinicalText = Member(entry, "clinicalText").s
      /\ r.codingSystem = Member(entry, "codingSystem").s
      /\ r.fileName = Plain(Member(entry, "fileName"))
      /\ r.clinicalSummary = Plain(Member(entry, "clinicalSummary"))
      /\ Len(r.extractedConcepts) = Len(concepts)
      /\ \A k \in DOMAIN concepts : r.extractedConcepts[k] = Plain(concepts[k])
      /\ Len(r.suggestedDiagnoses) = Len(diagnoses)
      /\ \A k \in DOMAIN diagnoses :
           LET d == r.suggestedDiagnoses[k]
               flag(name) == Member(diagnoses[k], name)
           IN  /\ d.code = Member(diagnoses[k], "code").s
               /\ d.description = Member(diagnoses[k], "description").s
               /\ d.confidence = Member(diagnoses[k], "confidence").n
               /\ d.id = Member(diagnoses[k], "id").s
               /\ d.isPrincipal = (flag("isPrincipal").t = "boolean" /\ flag("isPrincipal").b)
               /\ d.isSelected = (flag("isSelected").t = "boolean" /\ flag("isSelected").b)

(* C14: the write of an import adds to the store exactly one record per    *)
(* element of the payload, in the payload's order, with the field values   *)
(* of the element, false for an isPrincipal or isSelected it leaves out,   *)
(* and a key the store assigns, greater than every key it had assigned,    *)
(* whatever id the element carries; no record the import's clear removed   *)
(* is in the store afterwards, and the store the import cleared and no     *)
(* other call wrote to holds the records of the payload and no other.      *)
C14_ImportReplaces ==
  [][\A i \in DOMAIN imports :
       ImportWrites(i) =>
         LET payload == imports[i].text.value.a
         IN  /\ Len(history') = Len(history) + Len(payload)
             /\ SubSeq(history', 1, Len(history)) = history
             /\ \A k \in DOMAIN payload :
                  LET r == history'[Len(history) + k]
                  IN  /\ CarriesPayload(r, payload[k])
                      /\ r.id = nextId + k - 1
                      /\ \A key \in Keys(history) \cup Keys(imports[i].replaced) : key < r.id
             /\ Items(imports[i].replaced) \cap Items(history') = {}
             /\ Keys(imports[i].replaced) \cap Keys(history') = {}]_vars

\* ValidFile has been imported over the record of the earlier session: the
\* store holds its two entries, the first under a key that is not its id 1
C14_ValidFileImported ==
  /\ Len(history) = 2
  /\ history[1].fileName = "alta.pdf"
  /\ history[1].id > 1
  /\ ~history[1].suggestedDiagnoses[1].isPrincipal
  /\ history[1].suggestedDiagnoses[2].isPrincipal
  /\ ~history[1].suggestedDiagnoses[2].isSelected
  /\ history[2].timestamp = 3
  /\ \E t \in historyToasts : t.title = "Historial Importado"

\* the files of StoreFiles that are no history: one that is no JSON, one
\* that holds no array, one with an entry whose diagnosis has no code
RejectedFiles == {NotJson, NotAnArrayFile, MissingCodeFile}

(* C15: an import whose file does not parse or does not pass the           *)
(* validation reports the rejection with a destructive toast and leaves    *)
(* the store as it was: its records and its next key.  The step of an      *)
(* import that reads its file either does so or clears the store.          *)
C15_RejectedImportKeepsStore ==
  [][\A i \in DOMAIN imports :
       ImportReaderLoads(i) =>
         /\ \/ imports'[i].phase = "cleared" /\ history' = <<>>
            \/ /\ imports'[i].phase = "done"
               /\ history' = history
               /\ nextId' = nextId
               /\ historyToasts' # {}
               /\ \A t \in historyToasts' : t.variant = "destructive"
         /\ imports[i].text \in RejectedFiles => imports'[i].phase = "done"]_vars

\* the file with the diagnosis that lacks a code has been rejected and the
\* record of the earlier session is still in the store
C15_InvalidFileRejected ==
  /\ history = <<StoredEntry>>
  /\ \E t \in historyToasts : t.title = "Archivo No Valido"
  /\ \E i \in DOMAIN imports : imports[i].phase = "done"

\* every entry of the payload names one of the three coding systems and
\* holds only strings as concepts
InClosedSets(payload) ==
  \A k \in DOMAIN payload.a :
    /\ Member(payload.a[k], "codingSystem").t = "string"
    /\ Member(payload.a[k], "codingSystem").s \in CodingSystems
    /\ \A c \in DOMAIN Member(payload.a[k], "extractedConcepts").a :
         Member(payload.a[k], "extractedConcepts").a[c].t = "string"

(* C16: an import accepts a payload (goes on to clear the store) only if   *)
(* every entry's codingSystem is one of CIE-10, CIE-11, CIE-O and every    *)
(* extracted concept is a string; any other payload is rejected and the    *)
(* store is left as it was.                                                *)
C16_ClosedSetValidation ==
  [][\A i \in DOMAIN imports :
       ImportReaderLoads(i)
       /\ ~(/\ imports[i].text.parses
            /\ IsArray(imports[i].text.value)
            /\ InClosedSets(imports[i].text.value))
       => imports'[i].phase = "done" /\ history' = history]_vars

\* the imports that have cleared the store and not yet written to it
Cleared == {i \in DOMAIN imports : imports[i].phase = "cleared"}

(* C17: an import replaces the store atomically: once it has cleared the   *)
(* store nothing runs before its write (no query of the list delivers the  *)
(* store in between, no handler acts on it), and when the write fails the  *)
(* records the store held before the import are still in it.               *)
C17_AtomicReplace ==
  [][/\ Cleared # {} => \E i \in Cleared : ImportWrites(i) \/ ImportWriteFails(i)
     /\ \A i \in Cleared : ImportWriteFails(i) => history' = imports[i].replaced]_vars

(* C18: the calls that replace or clear the store are serialized: while an *)
(* import is between its clear and its write, no other import clears the  *)
(* store and handleClearAllHistory does not run, so that at most one       *)
(* import is between its clear and its write.                              *)
C18_ClearsAndWritesSerialized ==
  /\ [](Cardinality(Cleared) <= 1)
  /\ [][Cleared # {} =>
          /\ ~HandleClearAllHistory
          /\ \A i \in DOMAIN imports :
               ~(ImportReaderLoads(i) /\ imports'[i].phase = "cleared")]_vars

\* the records of a store without their keys
SansId(records) == [k \in DOMAIN records |-> [records[k] EXCEPT !.id = 0]]

(* C19: the import of the text that the export of a non-empty store        *)
(* yields writes as many records as that store held, each with the         *)
(* contents of the record at its place, the id apart; the store the import *)
(* cleared and no other call wrote to then holds those records and no      *)
(* other.                                                                  *)
C19_ImportRoundTrip ==
  [][\A i \in DOMAIN imports :
       /\ ImportWrites(i)
       /\ imports[i].replaced # <<>>
       /\ imports[i].text = Stringify(imports[i].replaced)
       => /\ SansId(SubSeq(history', Len(history) + 1, Len(history'))) =
               SansId(imports[i].replaced)
          /\ history = <<>> => SansId(history') = SansId(imports[i].replaced)]_vars

\* the store of the earlier session has been exported and the exported file
\* imported: it holds the record of that session under a later key (a
\* record the save button adds has a later timestamp)
C19_StoreRoundTripped ==
  /\ exported = Stringify(<<StoredEntry>>)
  /\ Len(history) = 1
  /\ history[1].id > StoredEntry.id
  /\ SansId(history) = SansId(<<StoredEntry>>)
  /\ \E t \in historyToasts : t.title = "Historial Importado"

(* C20: the deletion of a record whose key the store does not hold reports *)
(* a failure (a destructive toast, no success) and leaves the store as it  *)
(* was; the deletion of a record the store holds removes that record and   *)
(* no other.                                                               *)
C20_DeleteReportsAbsentKey ==
  [][\A k \in DOMAIN historyEntries :
       HandleDeleteEntry(k) =>
         LET id == historyEntries[k].id
         IN  IF id \in Keys(history)
             THEN /\ Keys(history') = Keys(history) \ {id}
                  /\ Items(history') \subseteq Items(history)
             ELSE /\ history' = history
                  /\ historyToasts' # {}
                  /\ \A t \in historyToasts' : t.variant = "destructive"]_vars

---------------------------------------------------------------------------
(* What saving, submitting and ingesting guarantee.                        *)

\* the steps that are a click on the save button
Saves == \E timestamp \in Timestamps : HandleSaveToHistory(timestamp)

StoreSteps ==
  \/ Saves
  \/ \E k \in DOMAIN historyEntries : HandleDeleteEntry(k)
  \/ HandleClearAllHistory
  \/ \E i \in DOMAIN imports : ImportReaderLoads(i)
  \/ \E i \in DOMAIN imports : ImportWrites(i)

\* C22 (store frame): the records of the store and the next key it assigns
\* change only in a step of save, delete, clear-all or import; every other
\* step, those of a submission (its retries and its success included), of
\* an ingestion, of a summary generation, of a load from the history and
\* of a curation operation, leaves every stored record as it was.
C22_StoreChangesOnlyExplicitly ==
  [][(history' # history \/ nextId' # nextId) => StoreSteps]_vars

\* a case read from a file was submitted with success, summarized and
\* curated (the second diagnosis promoted, the other one deselected), and
\* the store still holds the one record it held when the tool was opened
C22_CaseDoneStoreUntouched ==
  /\ submitted /\ ~isLoading /\ Falsy(error)
  /\ clinicalText = FileTxt.content
  /\ Len(suggestedDiagnoses) = 2
  /\ suggestedDiagnoses[1].code = DiagR50.code
  /\ suggestedDiagnoses[1].isPrincipal
  /\ ~suggestedDiagnoses[2].isSelected
  /\ ~Falsy(clinicalSummary)
  /\ history = <<StoredEntry>>
  /\ nextId = 2

\* the ingestions that have just ended in a failure of the document
\* operation
FailedIngestions ==
  {j \in DOMAIN jobs : jobs[j].phase = "done" /\ jobs[j].final \in {"retry", "perm"}}

SucceededIngestions ==
  {j \in DOMAIN jobs : jobs[j].phase = "done" /\ jobs[j].final \in {"text", "ok"}}

\* the texts that are empty or made of white space only
BlankTexts == {Join(output.text) : output \in {o \in ModelOutputs : TrimIsEmpty(o.text)}}

\* C24 (no blank text after success): when an ingestion has just ended in
\* success, clinicalText is neither empty nor made of white space only.
C24_SuccessNeverBlank ==
  SucceededIngestions # {} => clinicalText \notin BlankTexts

\* the files of a type the tool does not support
Unsupported(file) ==
  /\ MimeType(file) # "text/plain"
  /\ file.type[1] # "image"
  /\ MimeType(file) # "application/pdf"

\* C25 (unsupported type): an ingestion of a file that is neither
\* text/plain, image/* nor application/pdf ends in the step that selects
\* it: it is never read, no document operation is invoked for it, no retry
\* is scheduled, and when it has just ended the error is the one of the
\* unsupported type, clinicalText is empty and no file name is shown.
C25_UnsupportedRejected ==
  \A j \in DOMAIN jobs :
    Unsupported(jobs[j].file) /\ jobs[j].phase # "new" =>
      /\ jobs[j].phase = "done"
      /\ jobs[j].final = "unsupported"
      /\ jobs[j].invoked = 0
      /\ jobs[j].currentAttempt = 1
      /\ jobs[j].delays = <<>>
      /\ fileProcessingError =
           "Tipo de archivo no soportado. Por favor, suba imagenes, PDF o TXT."
      /\ clinicalText = ""
      /\ uploadedFileName = null
      /\ ~isProcessingFile
      /\ \E t \in toasts : t.variant = "destructive" /\ t.title = "Archivo no soportado"

\* a .docx file has just been refused, as the second file of the session
C25_DocxRefusedAfterText ==
  /\ Len(jobs) = 2
  /\ jobs[2].file = FileDocx
  /\ jobs[2].phase = "done"
  /\ jobs[2].final = "unsupported"

\* C26 (selection resets): the step that selects a file leaves clinicalText
\* empty whatever it held; for a file that is read it leaves the displayed
\* ingestion error null whatever it was, with the ingestion at its first
\* attempt, its read just begun and no document operation invoked; for a
\* file of an unsupported type, which is neither read nor sent, the error
\* it leaves is the one of this selection.
C26_SelectionResets ==
  [][\A file \in IngestionFiles :
       HandleFileChangeWithin(file, MaxIngestionUploads) =>
         /\ clinicalText' = ""
         /\ IF Unsupported(file)
            THEN /\ fileProcessingError' =
                      "Tipo de archivo no soportado. Por favor, suba imagenes, PDF o TXT."
                 /\ jobs'[Len(jobs')].phase = "done"
            ELSE /\ fileProcessingError' = null
                 /\ isProcessingFile'
                 /\ jobs'[Len(jobs')].phase = "reading"
                 /\ jobs'[Len(jobs')].currentAttempt = 1
         /\ jobs'[Len(jobs')].file = file
         /\ jobs'[Len(jobs')].invoked = 0]_vars

\* a second file has just been selected, after an ingestion that has ended:
\* the field is empty, no error is displayed and the read has begun
C26_SecondFileSelected ==
  /\ Len(jobs) = 2
  /\ jobs[1].phase = "retired"
  /\ jobs[2].phase = "reading"
  /\ jobs[2].currentAttempt = 1
  /\ jobs[2].invoked = 0
  /\ clinicalText = ""
  /\ fileProcessingError = null

\* the calls of onSubmit that run or wait for their retry
RunningCalls == {i \in DOMAIN subs : subs[i].phase \in {"inflight", "waiting"}}

\* C27 (invalid form): a submission is begun, and the two operations are
\* invoked for it, only from a form whose text has at least 20 characters
\* and whose coding system is one of the three; the data of every running
\* submission are such.  From an invalid form the submit step does not
\* exist: the concept list, the diagnosis list, the summary, the error and
\* the loading flag are not touched by it.
C27_InvalidFormNotSubmitted ==
  /\ [](\A i \in RunningCalls :
          /\ Len(subs[i].data.clinicalText) >= 20
          /\ subs[i].data.codingSystem \in {"CIE-10", "CIE-11", "CIE-O"})
  /\ [][Len(subs') > Len(subs) =>
          /\ Len(clinicalText) >= 20
          /\ codingSystem \in {"CIE-10", "CIE-11", "CIE-O"}
          /\ subs'[Len(subs')].data =
               [clinicalText |-> clinicalText, codingSystem |-> codingSystem]]_vars

\* the button is enabled and no submission was made, the form holds a text
\* of 6 characters and the coding system of an imported record, and the
\* concepts of that record are displayed
C27_InvalidFormIdle ==
  /\ ~SubmitDisabled
  /\ subs = <<>>
  /\ clinicalText = "Fiebre"
  /\ codingSystem = "ICD-9"
  /\ submitted
  /\ Len(extractedConcepts) > 0

\* the steps of a submission: its first attempt, the settling of an attempt
\* (which schedules a retry or finalizes), the timer and the retry
SubmissionSteps ==
  \/ SubmitWithin(MaxSessionSubmissions)
  \/ \E i \in DOMAIN subs : \E cr \in ConceptOutcomes : \E dr \in DiagnosisOutcomes :
       AllSettled(i, cr, dr)
  \/ \E i \in DOMAIN subs : SubmissionTimerDue(i) \/ RetrySubmission(i)

\* C28 (summary kept): no step of a submission changes the clinical summary
\* or the flag of its generation.
C28_SubmissionKeepsSummary ==
  [][SubmissionSteps =>
       clinicalSummary' = clinicalSummary /\ isSummarizing' = isSummarizing]_vars

\* a submission has just finalized after a retry and the summary generated
\* before it is displayed
C28_SummaryOutlivesSubmission ==
  /\ ~Falsy(clinicalSummary)
  /\ \E i \in DOMAIN subs : subs[i].phase = "done" /\ subs[i].currentAttempt > 1

---------------------------------------------------------------------------
(* What the toggle and the reorder guarantee.                              *)

\* C29 (toggle): a toggle with an id of the list leaves the list at its
\* length and every item at its position; an item with that id has its
\* isSelected flipped and its other fields kept, an item with another id is
\* kept whole; a second toggle with the same id gives the first list back.
C29_ToggleFlipsTarget ==
  [][\A id \in Ids(suggestedDiagnoses) :
       HandleToggleSelectedDiagnosis(id) =>
         /\ DOMAIN suggestedDiagnoses' = DOMAIN suggestedDiagnoses
         /\ \A k \in DOMAIN suggestedDiagnoses :
              LET before == suggestedDiagnoses[k]
                  after == suggestedDiagnoses'[k]
              IN  /\ after.isSelected = (IF before.id = id THEN ~before.isSelected
                                         ELSE before.isSelected)
                  /\ [after EXCEPT !.isSelected = before.isSelected] = before
         /\ ToggleSelectedDiagnosis(suggestedDiagnoses', id) = suggestedDiagnoses]_vars

\* the three diagnoses of a loaded record are in the order of the record
\* and the third, which the record does not select, has been selected
C29_ThirdToggled ==
  /\ Len(suggestedDiagnoses) = 3
  /\ [k \in 1..3 |-> suggestedDiagnoses[k].id] = <<"dx-1", "dx-2", "dx-3">>
  /\ [k \in 1..3 |-> suggestedDiagnoses[k].isSelected] = <<FALSE, TRUE, TRUE>>
  /\ [k \in 1..3 |-> suggestedDiagnoses[k].isPrincipal] = <<TRUE, FALSE, FALSE>>

\* the first position of the list that holds an item with the id
FirstWithId(items, id) ==
  CHOOSE k \in DOMAIN items :
    items[k].id = id /\ \A m \in 1..(k - 1) : items[m].id # id

\* C30 (reorder): a drop of the item with one id over the item with another
\* id puts the source at the position the target had, moves every item
\* between the two by one position towards the place the source left,
\* keeps every other item at its position and changes no field of any
\* item; a drop of an item over itself is no step, and a move from a
\* position to the same position gives the same list.
C30_ReorderMovesSource ==
  /\ [](\A id \in Ids(suggestedDiagnoses) :
          DragEnd(suggestedDiagnoses, id, id) = suggestedDiagnoses)
  /\ [][\A activeId \in Ids(suggestedDiagnoses) : \A overId \in Ids(suggestedDiagnoses) :
          HandleDragEnd(activeId, overId) =>
            LET from == FirstWithId(suggestedDiagnoses, activeId)
                to == FirstWithId(suggestedDiagnoses, overId)
            IN  /\ activeId # overId
                /\ DOMAIN suggestedDiagnoses' = DOMAIN suggestedDiagnoses
                /\ \A k \in DOMAIN suggestedDiagnoses :
                     suggestedDiagnoses'[k] =
                       IF k = to THEN suggestedDiagnoses[from]
                       ELSE IF from < to /\ from <= k /\ k < to
                            THEN suggestedDiagnoses[k + 1]
                       ELSE IF to < from /\ to < k /\ k <= from
                            THEN suggestedDiagnoses[k - 1]
                       ELSE suggestedDiagnoses[k]]_vars

\* the first diagnosis of a loaded record has been dropped over the third:
\* the two others have moved up by one position
C30_FirstDraggedToLast ==
  /\ Len(suggestedDiagnoses) = 3
  /\ [k \in 1..3 |-> suggestedDiagnoses[k].id] = <<"dx-2", "dx-3", "dx-1">>
  /\ [k \in 1..3 |-> suggestedDiagnoses[k].isPrincipal] = <<FALSE, FALSE, TRUE>>

---------------------------------------------------------------------------
(* The submissions of a session under fair scheduling: the notes are typed *)
(* or loaded from a record and submitted; the two remote calls of an       *)
(* attempt settle, a retry timer that was armed expires, and the callback  *)
(* of an expired timer runs.                                               *)

SubmissionNext ==
  \/ \E t \in SessionTexts : TypeClinicalText(t)
  \/ \E k \in DOMAIN historyEntries : HandleLoadFromHistory(k)
  \/ Submit
  \/ \E i \in DOMAIN subs : \E cr \in ConceptOutcomes : \E dr \in DiagnosisOutcomes :
       AllSettled(i, cr, dr)
  \/ \E i \in DOMAIN subs : SubmissionTimerDue(i)
  \/ \E i \in DOMAIN subs : RetrySubmission(i)

\* Promise.allSettled settles once both replies have arrived, and the event
\* loop runs a timer's callback once its delay has elapsed
SubmissionFairness ==
  /\ WF_vars(\E i \in DOMAIN subs : \E cr \in ConceptOutcomes : \E dr \in DiagnosisOutcomes :
               AllSettled(i, cr, dr))
  /\ WF_vars(\E i \in DOMAIN subs : SubmissionTimerDue(i))
  /\ WF_vars(\E i \in DOMAIN subs : RetrySubmission(i))

FairSubmissionSpec == Init /\ [][SubmissionNext]_vars /\ SubmissionFairness

---------------------------------------------------------------------------
(* What the session guarantees over time.                                  *)

\* what a call of onSubmit that has finalized left of one operation: its
\* result committed to the collection, or its error raised
ConceptsSettled(sub) ==
  IF sub.conceptsResult.status = "fulfilled"
  THEN extractedConcepts = sub.conceptsResult.value
  ELSE ConceptErrorToast(sub.conceptsResult.reason) \in toasts
DiagnosesSettled(sub) ==
  IF sub.diagnosesResultFromAI.status = "fulfilled"
  THEN \E nonce \in Nonces :
         suggestedDiagnoses = WithUIFields(sub.diagnosesResultFromAI.value, nonce)
  ELSE DiagnoseErrorToast(sub.diagnosesResultFromAI.reason) \in toasts

\* C31 (every submission finalizes): when the replies of the remote calls
\* are delivered and the retry timers expire, a submission that is in
\* flight or waiting on its retry timer finalizes and isLoading returns to
\* false, whatever the outcomes of its attempts are; a submission never is
\* on an attempt beyond the fourth; and in the state it finalizes in,
\* isLoading is false and each of the two collections holds the result of
\* its operation or the error of its operation has been raised.
C31_SubmissionFinalizes ==
  /\ isLoading ~> ~isLoading
  /\ \A n \in 1..MaxSubmissions :
       (Len(subs) >= n /\ subs[n].phase \in {"inflight", "waiting"})
         ~> (Len(subs) >= n /\ subs[n].phase = "done")
  /\ [](\A i \in Calls :
          /\ subs[i].currentAttempt <= MAX_AI_SUGGESTION_ATTEMPTS
          /\ subs[i].phase = "done" =>
               /\ ~isLoading
               /\ ConceptsSettled(subs[i])
               /\ DiagnosesSettled(subs[i]))

\* the second submission of the session finalizes on its fourth attempt,
\* the concepts committed and the error of the diagnoses raised
C31_FinalizedOnFourthAttempt ==
  /\ Len(subs) = 2
  /\ subs[2].phase = "done"
  /\ subs[2].currentAttempt = 4
  /\ subs[2].final = <<"ok", "retry">>
  /\ ~isLoading
  /\ Len(extractedConcepts) > 0

---------------------------------------------------------------------------
(* The ingestions of a session under fair scheduling: the FileReader ends  *)
(* a read it was given, with onload or with onerror; the document          *)
(* operation settles; a retry timer that was armed expires and its         *)
(* callback runs.  Records may be loaded from the history meanwhile.       *)

FairIngestionNext ==
  \/ IngestionNext
  \/ \E k \in DOMAIN historyEntries : HandleLoadFromHistory(k)

IngestionFairness ==
  /\ WF_vars(\E j \in DOMAIN jobs : ReaderLoads(j) \/ ReaderFails(j))
  /\ WF_vars(\E j \in DOMAIN jobs :
               \/ \E nodeEnv \in NodeEnvs : \E output \in ModelOutputs :
                    SettleIngestion(j, Fulfilled(ResultText(jobs[j], nodeEnv, output)))
               \/ \E e \in DocumentErrors : SettleIngestion(j, Rejected(e)))
  /\ WF_vars(\E j \in DOMAIN jobs : IngestionTimerDue(j))
  /\ WF_vars(\E j \in DOMAIN jobs : RetryIngestion(j))

FairIngestionSpec == Init /\ [][FairIngestionNext]_vars /\ IngestionFairness

\* what the document operation of a job may answer: the text it read
\* or the placeholder of its flow
ResultTexts(job) ==
  {ResultText(job, nodeEnv, output) : nodeEnv \in NodeEnvs, output \in ModelOutputs}

\* C32 (every ingestion ends): when file reads end, the replies of the
\* document operation are delivered and the retry timers expire, an
\* ingestion that is reading, in flight or waiting on its retry timer ends
\* and isProcessingFile returns to false; an ingestion never is on an attempt
\* beyond the fourth; and in the state it ends in, isProcessingFile is false
\* and either the notes hold the content of the text file or the answer of
\* the document operation (the text or the placeholder of its flow), or the
\* ingestion error is set (with the failure text in the notes when the
\* document operation failed).
C32_IngestionEnds ==
  /\ isProcessingFile ~> ~isProcessingFile
  /\ \A n \in 1..MaxIngestionUploads :
       (Len(jobs) >= n /\ jobs[n].phase \in {"reading", "inflight", "waiting"})
         ~> (Len(jobs) >= n /\ jobs[n].phase = "done")
  /\ [](\A j \in Ingestions :
          /\ jobs[j].currentAttempt <= MAX_FILE_PROCESSING_ATTEMPTS
          /\ jobs[j].phase = "done" =>
               /\ ~isProcessingFile
               /\ CASE jobs[j].final = "text" -> clinicalText = jobs[j].file.content
                    [] jobs[j].final = "ok" -> clinicalText \in ResultTexts(jobs[j])
                    [] jobs[j].final \in {"retry", "perm"} ->
                         /\ fileProcessingError # null
                         /\ clinicalText =
                              FileFailureText(jobs[j].file, jobs[j].uploadMethod,
                                              fileProcessingError)
                    [] OTHER -> fileProcessingError # null)

\* the second ingestion of the session ends on its fourth attempt with the
\* failure text in the notes, after a record was loaded
C32_FailedOnFourthAttempt ==
  /\ Len(jobs) = 2
  /\ jobs[2].phase = "done"
  /\ jobs[2].final = "retry"
  /\ jobs[2].currentAttempt = 4
  /\ ~isProcessingFile
  /\ codingSystem = StoredEntry.codingSystem
  /\ submitted

---------------------------------------------------------------------------
(* The lists the diagnosis operation may return: a code may come more than *)
(* once, and a code may hold the separator of the minted ids.              *)

DiagJ180 == [code |-> "J18-0", description |-> "Bronconeumonia", confidence |-> 61]
DiagJ1801 == [code |-> "J18-0-1", description |-> "Bronconeumonia lobular", confidence |-> 35]

RepeatedCodeValues ==
  {<<>>,
   <<DiagJ189, DiagJ189>>,
   <<DiagJ189, DiagR50, [DiagJ189 EXCEPT !.confidence = 12]>>,
   <<DiagJ1801, DiagJ180, DiagJ180>>}

CommitDiagnosisOutcomes ==
  {Fulfilled(w) : w \in RepeatedCodeValues} \cup {Rejected(ErrRateLimit)}

CommitNext ==
  \/ \E t \in TypedTexts : TypeClinicalText(t)
  \/ Submit
  \/ \E i \in DOMAIN subs : \E v \in ConceptValues : \E dr \in CommitDiagnosisOutcomes :
       AllSettled(i, Fulfilled(v), dr)
  \/ \E i \in DOMAIN subs : SubmissionTimerDue(i)
  \/ \E i \in DOMAIN subs : RetrySubmission(i)
  \/ \E id \in Ids(suggestedDiagnoses) : HandleSetPrincipalDiagnosis(id)
  \/ \E id \in Ids(suggestedDiagnoses) : HandleToggleSelectedDiagnosis(id)

CommitSpec == Init /\ [][CommitNext]_vars

\* C33 (minted ids): in the state in which a submission finalizes with the
\* diagnosis operation fulfilled, the diagnosis list holds one item for each
\* diagnosis returned, in the order returned and with its code, the ids of
\* the items are pairwise distinct, also when a code was returned more than
\* once, and every item has isPrincipal = false and isSelected = false.
C33_CommittedIdsDistinct ==
  \A i \in DOMAIN subs :
    (subs[i].phase = "done" /\ subs[i].diagnosesResultFromAI.status = "fulfilled") =>
      LET value == subs[i].diagnosesResultFromAI.value
      IN  /\ Len(suggestedDiagnoses) = Len(value)
          /\ \A a \in DOMAIN suggestedDiagnoses :
               /\ suggestedDiagnoses[a].code = value[a].code
               /\ suggestedDiagnoses[a].isPrincipal = FALSE
               /\ suggestedDiagnoses[a].isSelected = FALSE
               /\ \A b \in DOMAIN suggestedDiagnoses :
                    a # b => suggestedDiagnoses[a].id # suggestedDiagnoses[b].id

\* the second submission of the session commits three diagnoses of which
\* the first and the third carry one code
C33_RepeatedCodeCommitted ==
  /\ Len(subs) = 2
  /\ subs[2].phase = "done"
  /\ subs[2].diagnosesResultFromAI.status = "fulfilled"
  /\ Len(suggestedDiagnoses) = 3
  /\ suggestedDiagnoses[1].code = suggestedDiagnoses[3].code
  /\ suggestedDiagnoses[1].id # suggestedDiagnoses[3].id

---------------------------------------------------------------------------
(* The submissions of a session, one after the other.                      *)

SubmissionSpec == Init /\ [][SubmissionNext]_vars

\* C34 (error after rejected diagnoses): in the state in which a submission
\* finalizes with the diagnosis operation rejected, the session error is not
\* null, whether or not an error was displayed when the submission was
\* started.
C34_RejectedDiagnosesSetError ==
  \A i \in DOMAIN subs :
    (subs[i].phase = "done" /\ subs[i].diagnosesResultFromAI.status = "rejected") =>
      error # null

---------------------------------------------------------------------------
(* Results that arrive after the user has moved on.                        *)

\* the form and the lists show the record of a card of the history list
ShowsRecord(k) ==
  /\ clinicalText = historyEntries[k].clinicalText
  /\ codingSystem = historyEntries[k].codingSystem
  /\ extractedConcepts = historyEntries[k].extractedConcepts
  /\ \E nonce \in Nonces :
       suggestedDiagnoses = LoadedDiagnoses(historyEntries[k].suggestedDiagnoses, nonce)

\* the steps the user takes no part in: replies arrive, reads end, timers
\* expire and their callbacks run
BackgroundSteps ==
  \/ \E i \in DOMAIN subs : \E cr \in ConceptOutcomes : \E dr \in DiagnosisOutcomes :
       AllSettled(i, cr, dr)
  \/ \E i \in DOMAIN subs : SubmissionTimerDue(i) \/ RetrySubmission(i)
  \/ \E j \in DOMAIN jobs : ReaderLoads(j) \/ ReaderFails(j)
  \/ \E j \in DOMAIN jobs : \E r \in IngestionOutcomes : SettleIngestion(j, r)
  \/ \E j \in DOMAIN jobs : IngestionTimerDue(j) \/ RetryIngestion(j)

\* C35 (a loaded record is kept): while the clinical text, the coding
\* system, the concept list and the diagnosis list are those of a record
\* loaded from the history, no step other than an action of the user changes
\* any of them: the results of a submission or of an ingestion that was in
\* flight or waiting on its retry timer when the record was loaded do not
\* overwrite them.
C35_LoadedRecordKept ==
  [][\A k \in DOMAIN historyEntries :
       (ShowsRecord(k) /\ BackgroundSteps) => ShowsRecord(k)']_vars

---------------------------------------------------------------------------
(* The coding system of a case: it is selected, the notes are typed or     *)
(* read from a text file and submitted under it, records are loaded and    *)
(* the case is saved.                                                      *)

\* the coding system Select's disabled attribute
CodingSystemDisabled == isProcessingFile \/ isLoading \/ isSummarizing

\* the user picks another coding system: the Select's onValueChange
SelectCodingSystem(value) ==
  /\ ~CodingSystemDisabled
  /\ value # codingSystem
  /\ codingSystem' = value
  /\ suggestedDiagnoses' = <<>>
  /\ toasts' = {}
  /\ subs' = Closed(subs)
  /\ jobs' = ClosedJobs(jobs)
  /\ UNCHANGED <<clinicalText, isLoading, extractedConcepts, error, submitted,
                 fileVars, summaryVars, storeVars>>

\* what suggestDiagnoses answers for {clinicalText, codingSystem}: codes of
\* the coding system it was asked for
SuggestedFor(codingSystemAsked) ==
  CASE codingSystemAsked = "CIE-10" -> <<DiagJ189, DiagR50>>
    [] codingSystemAsked = "CIE-11" ->
         <<[code |-> "CA40.Z", description |-> "Neumonia", confidence |-> 82]>>
    [] OTHER ->
         <<[code |-> "8140/3", description |-> "Adenocarcinoma", confidence |-> 55]>>

PairingDiagnosisOutcomes(data) ==
  {Fulfilled(SuggestedFor(DiagnosesInput(data).codingSystem)), Rejected(ErrRateLimit)}

PairingNext ==
  \/ \E value \in CodingSystems : SelectCodingSystem(value)
  \/ \E t \in TypedTexts : TypeClinicalText(t)
  \/ SubmitWithin(MaxSessionSubmissions)
  \/ \E i \in DOMAIN subs : \E v \in ConceptValues :
       \E dr \in PairingDiagnosisOutcomes(subs[i].data) :
         AllSettled(i, Fulfilled(v), dr)
  \/ \E i \in DOMAIN subs : SubmissionTimerDue(i)
  \/ \E i \in DOMAIN subs : RetrySubmission(i)
  \/ \E k \in DOMAIN historyEntries : HandleLoadFromHistory(k)
  \/ \E file \in {FileTxt} : HandleFileChange(file)
  \/ \E j \in DOMAIN jobs : ReaderLoads(j)
  \/ \E timestamp \in {MaxTimestamp} : HandleSaveToHistory(timestamp)

PairingSpec == Init /\ [][PairingNext]_vars

\* the coding system a diagnosis was suggested for
GeneratedFor(diagnosis) ==
  CHOOSE asked \in CodingSystems :
    \E a \in DOMAIN SuggestedFor(asked) : SuggestedFor(asked)[a].code = diagnosis.code

\* C36 (a record pairs list and coding system): every diagnosis of every
\* record of the history store was suggested for the coding system the
\* record's codingSystem field holds.
C36_SavedListMatchesCodingSystem ==
  \A k \in DOMAIN history :
    \A a \in DOMAIN history[k].suggestedDiagnoses :
      GeneratedFor(history[k].suggestedDiagnoses[a]) = history[k].codingSystem

\* C37 (only the last attempt is committed): in the step in which a
\* submission finalizes, a collection whose operation was rejected on the
\* last attempt stays as it was before the step, also when the operation
\* had succeeded on an earlier attempt of the submission, and a collection
\* whose operation was fulfilled on the last attempt holds what that attempt
\* returned.
C37_LastAttemptOnly ==
  [][\A i \in DOMAIN subs :
       (subs[i].phase = "inflight" /\ subs'[i].phase = "done") =>
         /\ IF subs'[i].conceptsResult.status = "rejected"
            THEN extractedConcepts' = extractedConcepts
            ELSE extractedConcepts' = subs'[i].conceptsResult.value
         /\ IF subs'[i].diagnosesResultFromAI.status = "rejected"
            THEN suggestedDiagnoses' = suggestedDiagnoses
            ELSE \E nonce \in Nonces :
                   suggestedDiagnoses' =
                     WithUIFields(subs'[i].diagnosesResultFromAI.value, nonce)]_vars

\* a submission finalizes on its second attempt with concept extraction
\* rejected for good, after an attempt in which concept extraction
\* succeeded and diagnosis suggestion failed retryably: the concept list is
\* empty and the diagnosis list holds the suggestions of the second attempt
C37_EarlierSuccessDiscarded ==
  \E i \in DOMAIN subs :
    /\ subs[i].phase = "done"
    /\ subs[i].currentAttempt = 2
    /\ subs[i].failed = {"diagnoses"}
    /\ subs[i].final = <<"perm", "ok">>
    /\ extractedConcepts = <<>>
    /\ Len(suggestedDiagnoses) = 2

\* the inputs of the two calls of an attempt of a submission
Sent(sub) == <<ConceptsInput(sub.data), DiagnosesInput(sub.data)>>

\* C38 (the submitted data are sent): the first attempt of a submission
\* sends the clinical text and the coding system the form held when it was
\* submitted, and every later attempt of the submission sends the same,
\* whatever happens to the form while the attempt is in flight or the retry
\* timer is pending.
C38_AttemptsSendSubmittedData ==
  /\ [][Len(subs') > Len(subs) =>
          Sent(subs'[Len(subs')]) =
            <<[documentText |-> clinicalText],
              [clinicalText |-> clinicalText, codingSystem |-> codingSystem]>>]_vars
  /\ [][\A i \in DOMAIN subs :
          (/\ subs[i].phase \in {"inflight", "waiting"}
           /\ subs'[i].phase \in {"inflight", "waiting"}) =>
            Sent(subs'[i]) = Sent(subs[i])]_vars

\* the second attempt of a submission is in flight with the text and the
\* coding system that were submitted, after a text file was read into the
\* notes and another coding system came with a loaded record
C38_RetrySentAfterFormChanged ==
  \E i \in DOMAIN subs :
    /\ subs[i].phase = "inflight"
    /\ subs[i].currentAttempt = 2
    /\ subs[i].data.codingSystem = "CIE-11"
    /\ codingSystem = "CIE-10"
    /\ subs[i].data.clinicalText \in TypedTexts
    /\ clinicalText = FileTxt.content
    /\ uploadedFileName = FileTxt.name

\* C39 (the flags cover the activities): while an attempt of a submission
\* is in flight or its retry timer is pending, isLoading is true, and while
\* a file of an ingestion is read, its document operation is in flight or
\* its retry timer is pending, isProcessingFile is true; so a flag is false
\* only when no attempt of its activity is in flight and no retry of it is
\* pending.
C39_FlagsCoverActivities ==
  /\ LiveCalls # {} => isLoading
  /\ LiveIngestions # {} => isProcessingFile

\* the retry timers of a submission and of an ingestion are pending, each
\* after its third attempt, a record having been loaded meanwhile, and both
\* flags are true
C39_BothRetriesPending ==
  /\ \E i \in DOMAIN subs :
       /\ subs[i].phase = "waiting"
       /\ subs[i].currentAttempt = 3
       /\ subs[i].remaining > 0
  /\ \E j \in DOMAIN jobs :
       /\ jobs[j].phase = "waiting"
       /\ jobs[j].currentAttempt = 3
       /\ jobs[j].remaining > 0
  /\ clinicalText = StoredEntry.clinicalText
  /\ isLoading
  /\ isProcessingFile

====
